---- MODULE Spec2Model ----
(***************************************************************************)
(* A model of the AutoZap agent runtime: the retry policy, the bash and    *)
(* HTTP action executors, the cron and filewatch triggers, the history     *)
(* store, the workflow registry and the agent supervisor with hot-reload.  *)
(*                                                                         *)
(* Text is modelled as a sequence of tokens: one token per word or         *)
(* punctuation mark, one token per decimal digit of a number.  A substring *)
(* test of the code is a contiguous-subsequence test on tokens.            *)
(***************************************************************************)
EXTENDS Integers, Sequences, FiniteSets, TLC

(***************************************************************************)
(* Bounds of the model.                                                    *)
(***************************************************************************)
MaxAttemptsBound == 3
MaxFirings == 2
MaxEvents == 1
MaxRows == 2
MaxCalls == 4
MaxWatchEvents == 2
MaxStatRows == 2
MaxDocActions == 2
MaxClockSteps == 14

\* one more environment outcome than any policy may consume
EnvLen == MaxAttemptsBound + 1

(***************************************************************************)
(* Text helpers.                                                           *)
(***************************************************************************)
NoErr == <<>>

DigitTok == <<"0", "1", "2", "3", "4", "5", "6", "7", "8", "9">>

RECURSIVE Digits(_)
Digits(n) ==
    IF n < 10 THEN <<DigitTok[n + 1]>>
    ELSE Digits(n \div 10) \o <<DigitTok[(n % 10) + 1]>>

ToLowerTok(t) ==
    CASE t = "HTTP" -> "http"
      [] t = "Expected" -> "expected"
      [] t = "TIMEOUT" -> "timeout"
      [] t = "Connection" -> "connection"
      [] OTHER -> t

ToLower(s) == [i \in 1..Len(s) |-> ToLowerTok(s[i])]

Contains(s, sub) ==
    \E i \in 0..(Len(s) - Len(sub)) : \A j \in 1..Len(sub) : s[i + j] = sub[j]

HasPrefix(s, p) ==
    /\ Len(p) <= Len(s)
    /\ \A j \in 1..Len(p) : s[j] = p[j]

TrimPrefix(s, p) ==
    IF HasPrefix(s, p) THEN SubSeq(s, Len(p) + 1, Len(s)) ELSE s

(***************************************************************************)
(* retry package.                                                          *)
(***************************************************************************)
NoRetry == [present |-> FALSE, MaxAttempts |-> 0, RetryOn |-> <<>>]

RetryConfig(n, on) == [present |-> TRUE, MaxAttempts |-> n, RetryOn |-> on]

\* a match that compares the condition as written, without lowering it
condMatchesCaseSensitive(errMsgLower, condition) ==
    CASE condition = <<"timeout">> ->
            \/ Contains(errMsgLower, <<"timeout">>)
            \/ Contains(errMsgLower, <<"deadline", "exceeded">>)
      [] condition = <<"error">> -> TRUE
      [] HasPrefix(condition, <<"status", ":">>) ->
            LET statusCode == TrimPrefix(condition, <<"status", ":">>) IN
            \/ Contains(errMsgLower, <<"status", "code">> \o statusCode)
            \/ Contains(errMsgLower, <<"status">> \o statusCode)
      [] condition = <<"network">> ->
            \/ Contains(errMsgLower, <<"network">>)
            \/ Contains(errMsgLower, <<"connection">>)
            \/ Contains(errMsgLower, <<"dns">>)
      [] OTHER -> Contains(errMsgLower, condition)

\* one condition of retry_on against the lowered error text
condMatches(errMsgLower, condition) ==
    LET conditionLower == ToLower(condition) IN
    CASE conditionLower = <<"timeout">> ->
            \/ Contains(errMsgLower, <<"timeout">>)
            \/ Contains(errMsgLower, <<"deadline", "exceeded">>)
      [] conditionLower = <<"error">> -> TRUE
      [] HasPrefix(conditionLower, <<"status", ":">>) ->
            LET statusCode == TrimPrefix(conditionLower, <<"status", ":">>) IN
            \/ Contains(errMsgLower, <<"status", "code">> \o statusCode)
            \/ Contains(errMsgLower, <<"status">> \o statusCode)
      [] conditionLower = <<"network">> ->
            \/ Contains(errMsgLower, <<"network">>)
            \/ Contains(errMsgLower, <<"connection">>)
            \/ Contains(errMsgLower, <<"dns">>)
      [] OTHER -> Contains(errMsgLower, conditionLower)

\* a retry decision that ignores the retry_on list
shouldRetryAnyFailure(err, retryOn) == err # NoErr

shouldRetry(err, retryOn) ==
    IF err = NoErr THEN FALSE
    ELSE IF Len(retryOn) = 0 THEN TRUE
    ELSE \E i \in 1..Len(retryOn) : condMatches(ToLower(err), retryOn[i])

\* an exit test that lets one attempt too many through
lastAttemptOffByOne(attempt, maxAttempts) == attempt > maxAttempts

\* the loop's exit test after a failed attempt
lastAttempt(attempt, maxAttempts) == attempt >= maxAttempts

\* outcomes[k] is what the k-th invocation of fn returns.  The result names
\* the returned error, the number of invocations of fn and of sleeps.
RECURSIVE retryLoop(_, _, _, _)
retryLoop(retryConfig, maxAttempts, outcomes, attempt) ==
    LET err == outcomes[attempt] IN
    IF err = NoErr THEN
        [err |-> NoErr, calls |-> attempt, sleeps |-> attempt - 1]
    ELSE IF lastAttempt(attempt, maxAttempts) THEN
        [err |-> err, calls |-> attempt, sleeps |-> attempt - 1]
    ELSE IF ~shouldRetry(err, retryConfig.RetryOn) THEN
        [err |-> err, calls |-> attempt, sleeps |-> attempt - 1]
    ELSE retryLoop(retryConfig, maxAttempts, outcomes, attempt + 1)

ExecuteWithRetry(retryConfig, outcomes) ==
    IF ~retryConfig.present \/ retryConfig.MaxAttempts <= 0 THEN
        [err |-> outcomes[1], calls |-> 1, sleeps |-> 0]
    ELSE retryLoop(retryConfig, retryConfig.MaxAttempts, outcomes, 1)

(***************************************************************************)
(* action package: the bash executor.                                      *)
(***************************************************************************)
\* exit is the exit status of the command, or -1 when the shell could not
\* be run at all (an error that is not an ExitError)
\* an error text that leaves the exit code out
executeBashActionOnceNoCode(action, exit) ==
    IF exit = 0 THEN NoErr
    ELSE <<"bash", "action", action.Name, "failed">>

executeBashActionOnce(action, exit) ==
    IF exit = 0 THEN NoErr
    ELSE IF exit > 0 THEN
        <<"bash", "action", action.Name, "failed", "with", "exit", "code">>
            \o Digits(exit) \o <<":", "exit", "status">> \o Digits(exit)
    ELSE
        <<"bash", "action", action.Name, "failed", "to", "execute", ":",
          "exec", ":", "bash", ":", "executable", "file", "not", "found">>

metricStatus(err) == IF err # NoErr THEN "failed" ELSE "success"

\* result: err, the number of inner runs, the sleeps, and the status label of
\* the one RecordActionExecution call ("none" when no call is made)
ExecuteBashAction(action, workflowName, exits) ==
    IF action.Type # "bash" THEN
        [err |-> <<"invalid", "action", "type", "for", "ExecuteBashAction",
                   ":", "expected", "bash", ",", "got", action.Type>>,
         calls |-> 0, sleeps |-> 0, metric |-> "none", blocked |-> FALSE]
    ELSE IF action.Command = "" THEN
        [err |-> <<"bash", "action", "command", "cannot", "be", "empty">>,
         calls |-> 0, sleeps |-> 0, metric |-> "none", blocked |-> FALSE]
    ELSE
        LET r == ExecuteWithRetry(action.Retry,
                     [k \in 1..Len(exits) |-> executeBashActionOnce(action, exits[k])])
        IN  [err |-> r.err, calls |-> r.calls, sleeps |-> r.sleeps,
             metric |-> IF workflowName # "" THEN metricStatus(r.err) ELSE "none",
             blocked |-> FALSE]

(***************************************************************************)
(* action package: the HTTP executor.                                      *)
(***************************************************************************)
\* expect_status as the YAML decoder hands it over: nil, one typed scalar,
\* or a list of typed scalars; a scalar is [t |-> "int"|"float"|"string", v]
ExpectNil == [kind |-> "nil", items |-> <<>>]

ExpectOne(t, v) == [kind |-> "scalar", items |-> <<[t |-> t, v |-> v]>>]

ExpectList(items) == [kind |-> "list", items |-> items]

\* a server answer: a response, a connection failure, or no answer at all
Response(status, body) == [kind |-> "resp", status |-> status, body |-> body]

NetErr == [kind |-> "neterr", status |-> 0, body |-> <<>>]

Hang == [kind |-> "hang", status |-> 0, body |-> <<>>]

\* time.ParseDuration on the timeout field
validDuration(s) == s \in {"5s", "10s", "1s"}

httpResult(err, calls, workflowName, blocked) ==
    [err |-> err, calls |-> calls, sleeps |-> 0,
     metric |-> IF workflowName # "" /\ ~blocked THEN metricStatus(err) ELSE "none",
     blocked |-> blocked]

\* the status validation of a received response; NoErr when it passes
validateStatus(action, status) ==
    LET es == action.ExpectStatus
        badItems == IF es.kind = "list"
                    THEN {i \in 1..Len(es.items) : es.items[i].t # "int"}
                    ELSE {}
        expectedStatuses ==
            IF es.kind = "scalar" /\ es.items[1].t = "int" THEN {es.items[1].v}
            ELSE IF es.kind = "list" THEN {es.items[i].v : i \in 1..Len(es.items)}
            ELSE {}
    IN  IF es.kind = "nil" THEN NoErr
        ELSE IF badItems # {} THEN
            <<"HTTP", "action", action.Name, ":", "invalid", "type", "in",
              "expect_status", "list", ".", "Expected", "integer">>
        ELSE IF status \notin expectedStatuses THEN
            <<"HTTP", "action", action.Name, "failed", ":", "unexpected",
              "status", "code">> \o Digits(status)
                \o <<".", "Expected", "one", "of">>
        ELSE NoErr

validateBody(action, body) ==
    IF action.ExpectBodyContains # <<>> /\ ~Contains(body, action.ExpectBodyContains)
    THEN <<"HTTP", "action", action.Name, "failed", ":", "response", "body",
           "does", "not", "contain", "expected", "string">>
    ELSE NoErr

\* resps[1] is the server's answer to the one request the executor sends
ExecuteHttpAction(action, workflowName, resps) ==
    IF action.Type # "http" THEN
        httpResult(<<"invalid", "action", "type", "expected", "http", "got",
                     action.Type>>, 0, workflowName, FALSE)
    ELSE IF action.URL = "" THEN
        httpResult(<<"http", "action", action.Name, "has", "empty", "URL">>,
                   0, workflowName, FALSE)
    ELSE IF action.Method = "" THEN
        httpResult(<<"http", "action", action.Name, "has", "empty", "method">>,
                   0, workflowName, FALSE)
    ELSE IF action.Timeout # "" /\ ~validDuration(action.Timeout) THEN
        httpResult(<<"invalid", "timeout", "duration">>, 0, workflowName, FALSE)
    ELSE
        LET resp == resps[1] IN
        IF resp.kind = "hang" THEN
            IF action.Timeout # "" THEN
                httpResult(<<"HTTP", "action", action.Name, "timed", "out",
                             "after", action.Timeout, ":", "context",
                             "deadline", "exceeded">>, 1, workflowName, FALSE)
            ELSE httpResult(NoErr, 1, workflowName, TRUE)
        ELSE IF resp.kind = "neterr" THEN
            httpResult(<<"HTTP", "request", "failed", "for", "action",
                         action.Name, ":", "dial", "tcp", ":", "connection",
                         "refused">>, 1, workflowName, FALSE)
        ELSE
            LET statusErr == validateStatus(action, resp.status) IN
            IF statusErr # NoErr THEN httpResult(statusErr, 1, workflowName, FALSE)
            ELSE httpResult(validateBody(action, resp.body), 1, workflowName, FALSE)

(***************************************************************************)
(* metrics package: labelled counters, materialised on first use.          *)
(***************************************************************************)
Inc(counter, labels) ==
    IF labels \in DOMAIN counter
    THEN [counter EXCEPT ![labels] = @ + 1]
    ELSE counter @@ (labels :> 1)

Count(counter, labels) ==
    IF labels \in DOMAIN counter THEN counter[labels] ELSE 0

\* a recording that counts an action no executor ran as a success
RecordActionExecutionSkippedAsSuccess(counter, workflowName, action, status) ==
    Inc(counter, <<workflowName, action.Name, action.Type,
                   IF status = "none" THEN "success" ELSE status>>)

RecordActionExecution(counter, workflowName, action, status) ==
    IF status = "none" THEN counter
    ELSE Inc(counter, <<workflowName, action.Name, action.Type, status>>)

(***************************************************************************)
(* workflow package: actions and workflows.                                *)
(***************************************************************************)
BashAction(name, command, retry) ==
    [Type |-> "bash", Name |-> name, Command |-> command, URL |-> "",
     Method |-> "", Timeout |-> "", ExpectStatus |-> ExpectNil,
     ExpectBodyContains |-> <<>>, Retry |-> retry]

HttpAction(name, url, method, timeout, expectStatus, expectBody, retry) ==
    [Type |-> "http", Name |-> name, Command |-> "", URL |-> url,
     Method |-> method, Timeout |-> timeout, ExpectStatus |-> expectStatus,
     ExpectBodyContains |-> expectBody, Retry |-> retry]

CustomAction(name) ==
    [Type |-> "custom", Name |-> name, Command |-> "", URL |-> "",
     Method |-> "", Timeout |-> "", ExpectStatus |-> ExpectNil,
     ExpectBodyContains |-> <<>>, Retry |-> NoRetry]

Workflow(name, trigger, actions) ==
    [valid |-> TRUE, Name |-> name, Trigger |-> trigger, Actions |-> actions]

CronTrigger(schedule) ==
    [Type |-> "cron", Schedule |-> schedule, Path |-> "", Events |-> {}]

FileWatchTrigger(path, events) ==
    [Type |-> "filewatch", Schedule |-> "", Path |-> path, Events |-> events]

\* a document that ParseWorkflowFile rejects
BadDoc == [valid |-> FALSE, Name |-> "", Trigger |-> CronTrigger(""), Actions |-> <<>>]

\* the documents of a directory that is edited while the agent runs
WfA5 == Workflow("A", CronTrigger("*/5 * * * *"), <<BashAction("a1", "exit 0", NoRetry)>>)

WfA7 == Workflow("A", CronTrigger("*/7 * * * *"), <<BashAction("a1", "exit 0", NoRetry)>>)

WfB == Workflow("B", FileWatchTrigger("/tmp/wd", {"create"}), <<BashAction("b1", "exit 0", NoRetry)>>)

WfBadCron == Workflow("C", CronTrigger("not a schedule"), <<BashAction("c1", "exit 0", NoRetry)>>)

\* a second file that declares the name of the first
WfA2 == Workflow("A", FileWatchTrigger("/tmp/wd", {"create"}), <<BashAction("a1", "exit 0", NoRetry)>>)

\* the documents of a directory with longer chains
WfMixed ==
    Workflow("E", CronTrigger("*/7 * * * *"),
             <<CustomAction("e1"),
               HttpAction("e2", "http://fixture", "GET", "5s",
                          ExpectOne("int", 200), <<>>, NoRetry),
               BashAction("e3", "test -f /tmp/ready", NoRetry)>>)

WfWatch ==
    Workflow("F", FileWatchTrigger("/tmp/wd", {"create", "write"}),
             <<BashAction("f1", "test -f /tmp/ready", NoRetry),
               HttpAction("f2", "http://fixture", "GET", "5s",
                          ExpectOne("int", 200), <<>>, NoRetry),
               CustomAction("f3")>>)

\* robfig/cron's parser on the schedule field
validSchedule(schedule) == schedule \in {"*/5 * * * *", "*/7 * * * *"}

Paths == {"p1.yaml", "p2.yaml"}

NoFile == [present |-> FALSE, doc |-> BadDoc]

FileOf(doc) == [present |-> TRUE, doc |-> doc]

\* what an edit may leave in a file of the directory
DocsAt(path) ==
    IF path = "p1.yaml" THEN {WfA5, WfA7, BadDoc} ELSE {WfB, WfBadCron, WfA2}

\* the directory at startup, when it is watched for changes
WatchedDirs ==
    {c \in [Paths -> {NoFile} \cup {FileOf(d) : d \in UNION {DocsAt(q) : q \in Paths}}] :
        \A q \in Paths : c[q] = NoFile \/ c[q].doc \in DocsAt(q)}

\* the directory at startup, when it is not watched
FixedDirs ==
    { [q \in Paths |-> IF q = "p1.yaml" THEN FileOf(WfMixed) ELSE FileOf(WfWatch)],
      [q \in Paths |-> IF q = "p1.yaml" THEN FileOf(WfMixed) ELSE NoFile] }

(***************************************************************************)
(* The environment of an action: what the shell and the server answer.     *)
(***************************************************************************)
\* the exit statuses a command can end with
ExitsOf(command) ==
    CASE command = "exit 0" -> {0}
      [] command = "exit 2" -> {2}
      [] command = "test -f /tmp/ready" -> {0, 1}
      [] command = "flaky" -> {0, 1, -1}
      [] OTHER -> {0}

ExitEnvs(command) == [1..EnvLen -> ExitsOf(command)]

\* the inner runs an action's policy may ask for
attemptsOf(action) ==
    IF action.Retry.present /\ action.Retry.MaxAttempts > 1
    THEN action.Retry.MaxAttempts ELSE 1

\* the environment of one action of a chain
ChainExits(action) == [1..attemptsOf(action) -> ExitsOf(action.Command)]

Resp200ok == Response(200, <<"ok">>)

Resp200other == Response(200, <<"starting">>)

Resp503 == Response(503, <<"unavailable">>)

Responses == {Resp200ok, Resp200other, Resp503, NetErr, Hang}

RespEnvs == [1..MaxAttemptsBound -> Responses]

ChainResps(action) == [1..attemptsOf(action) -> {Resp200ok, Resp503}]

(***************************************************************************)
(* State.                                                                  *)
(***************************************************************************)
VARIABLES
    xAct,       \* executor harness: the action handed to the executor
    xWf,        \* executor harness: the workflow name argument ("" when omitted)
    xExits,     \* executor harness: exit statuses of the successive shell runs
    xResps,     \* executor harness: answers of the server to successive requests
    xRes,       \* executor harness: what the executor returned
    xPc,        \* executor harness: "ready" before the call, "done" after
    actionExecutions    \* metrics: action_executions_total by labels

VARIABLES
    rCfg,       \* retry engine: the retry configuration of the call
    rOuts,      \* retry engine: what the successive invocations of fn return
    rAttempt,   \* retry engine: the loop variable attempt
    rPc,        \* retry engine: "call" before fn, "sleep" in time.Sleep, "done"
    rCtx,       \* retry engine: the scope of the task that made the call
    rCalls,     \* retry engine: invocations of fn so far
    rDelays,    \* retry engine: the delays slept so far, in milliseconds
    rErr        \* retry engine: the error returned

rVars == <<rCfg, rOuts, rAttempt, rPc, rCtx, rCalls, rDelays, rErr>>

VARIABLES
    sDb,        \* history store called directly: the package's db handle is set
    sCall       \* history store called directly: the last call and its result

sVars == <<sDb, sCall>>

VARIABLES
    wTrig,      \* file watcher called directly: the trigger of the workflow
    wSt,        \* file watcher called directly: "init", "watching", "failed"
    wSeen,      \* file watcher called directly: the events received so far
    wCall       \* trigger called directly: the start function and its environment

wVars == <<wTrig, wSt, wSeen, wCall>>

VARIABLES
    dryRun,     \* command line: the --dry-run flag
    subcommand  \* command line: the subcommand, "agent", "run" or "stats"

cVars == <<dryRun, subcommand>>

VARIABLES
    qRows,      \* stats query: the workflow_executions table the command finds
    qName,      \* stats query: the workflow name argument
    qSince,     \* stats query: the start of the window
    qRes        \* stats query: what GetWorkflowStats returned

qVars == <<qRows, qName, qSince, qRes>>

VARIABLES
    pDoc,       \* parser: the decoded document handed to validateWorkflow
    pRes        \* parser: what validateWorkflow returned and how often it warned

pVars == <<pDoc, pRes>>

VARIABLES
    uNow,       \* next-execution updater: the clock, in seconds
    uSched,     \* next-execution updater: the period of the schedule, in seconds
    uEntry,     \* next-execution updater: entry.Next of the scheduler, 0 the zero time
    uReg,       \* next-execution updater: NextExecution of the registry entry, 0 nil
    uDone,      \* next-execution updater: the number of jobs that have returned
    uLast,      \* next-execution updater: the instant of the last job, 0 none
    uTick,      \* next-execution updater: when the ticker fires next
    uPc         \* next-execution updater: "idle", "init", "running" or "stopped"

uVars == <<uNow, uSched, uEntry, uReg, uDone, uLast, uTick, uPc>>

xVars == <<xAct, xWf, xExits, xResps, xRes, xPc, rVars, sVars, wVars, cVars, qVars, pVars, uVars>>

NoResult == [err |-> NoErr, calls |-> 0, sleeps |-> 0, metric |-> "none", blocked |-> FALSE]

(***************************************************************************)
(* The executors called on their own, as the package tests call them.      *)
(***************************************************************************)
RetryOnLists ==
    { <<>>,
      << <<"timeout">> >>,
      << <<"status", ":", "5", "0", "3">> >>,
      << <<"error">> >>,
      << <<"TIMEOUT">>, <<"network">> >>,
      << <<"exit", "code", "2">> >> }

RetryConfigs ==
    {NoRetry} \cup {RetryConfig(n, on) : n \in (-1)..MaxAttemptsBound, on \in RetryOnLists}

TestBashActions ==
    {BashAction(name, command, retry) :
        name \in {"a1", "timeout"}, command \in {"exit 2", "flaky", ""},
        retry \in RetryConfigs}
    \cup {[BashAction("a1", "exit 0", NoRetry) EXCEPT !.Type = "http"]}

TestExpectStatus ==
    { ExpectNil, ExpectOne("int", 200), ExpectOne("float", 200),
      ExpectList(<<[t |-> "int", v |-> 200], [t |-> "int", v |-> 204]>>),
      ExpectList(<<[t |-> "int", v |-> 200], [t |-> "string", v |-> 0]>>) }

TestHttpActions ==
    {HttpAction("h1", "http://fixture", "GET", timeout, es, body, retry) :
        timeout \in {"", "5s", "bogus"}, es \in TestExpectStatus,
        body \in {<<>>, <<"ok">>},
        retry \in {NoRetry, RetryConfig(MaxAttemptsBound, << <<"status", ":", "5", "0", "3">> >>)}}
    \cup {HttpAction("h1", "", "GET", "", ExpectNil, <<>>, NoRetry),
          HttpAction("h1", "http://fixture", "", "", ExpectNil, <<>>, NoRetry),
          [HttpAction("h1", "http://fixture", "GET", "", ExpectNil, <<>>, NoRetry)
              EXCEPT !.Type = "bash"]}

NoExits == [k \in 1..EnvLen |-> 0]

NoResps == [k \in 1..MaxAttemptsBound |-> Resp200ok]

InitExecutor ==
    /\ xWf \in {"", "A"}
    /\ \/ /\ xAct \in TestBashActions
          /\ xExits \in ExitEnvs(xAct.Command)
          /\ xResps = NoResps
       \/ /\ xAct \in TestHttpActions
          /\ xExits = NoExits
          /\ xResps \in RespEnvs
    /\ xRes = NoResult
    /\ xPc = "ready"
    /\ actionExecutions = << >>

CallExecuteBashAction ==
    /\ xPc = "ready"
    /\ xAct \in TestBashActions
    /\ LET r == ExecuteBashAction(xAct, xWf, xExits) IN
        /\ xRes' = r
        /\ actionExecutions' = RecordActionExecution(actionExecutions, xWf, xAct, r.metric)
    /\ xPc' = "done"
    /\ UNCHANGED <<xAct, xWf, xExits, xResps, rVars, sVars, wVars, cVars, qVars, pVars, uVars>>

CallExecuteHttpAction ==
    /\ xPc = "ready"
    /\ xAct \in TestHttpActions
    /\ LET r == ExecuteHttpAction(xAct, xWf, xResps) IN
        /\ xRes' = r
        /\ actionExecutions' = RecordActionExecution(actionExecutions, xWf, xAct, r.metric)
        /\ xPc' = IF r.blocked THEN "blocked" ELSE "done"
    /\ UNCHANGED <<xAct, xWf, xExits, xResps, rVars, sVars, wVars, cVars, qVars, pVars, uVars>>

(***************************************************************************)
(* The agent: supervisor, per-workflow tasks, triggers, history, registry. *)
(***************************************************************************)
VARIABLES
    dir,                \* the workflow directory: path -> file
    watch,              \* the --watch flag
    agent,              \* Run: "init", "running", "draining" (root cancelled)
    sup,                \* the directory watcher goroutine of setupWorkflowWatcher
    nEvents,            \* number of directory events delivered so far
    activeWorkflows,    \* the sync.Map path -> cancel handle (a task id, 0 when absent)
    tasks,              \* the per-workflow tasks ever started, by id
    firings,            \* the trigger firings ever started, by id
    rows,               \* history store: workflow_executions, by id
    triggerFires,       \* metrics: trigger_fires_total by labels
    workflowExecutions, \* metrics: workflow_executions_total by labels
    registry,           \* server registry: workflow name -> WorkflowInfo
    activeGauge         \* metrics: agent_active_workflows

agentVars == <<dir, watch, agent, sup, nEvents, activeWorkflows, tasks, firings, rows,
               triggerFires, workflowExecutions, registry, activeGauge>>

vars == <<xAct, xWf, xExits, xResps, xRes, xPc, actionExecutions,
          rCfg, rOuts, rAttempt, rPc, rCtx, rCalls, rDelays, rErr, sDb, sCall, wTrig, wSt, wSeen, wCall, dryRun, subcommand,
          qRows, qName, qSince, qRes, pDoc, pRes,
          uNow, uSched, uEntry, uReg, uDone, uLast, uTick, uPc,
          dir, watch, agent, sup, nEvents, activeWorkflows, tasks, firings, rows,
          triggerFires, workflowExecutions, registry, activeGauge>>

TaskIds == 1..Len(tasks)

FiringIds == 1..Len(firings)

SupIdle == [pc |-> "select", path |-> "", ops |-> {}]

(***************************************************************************)
(* database package.                                                       *)
(***************************************************************************)
\* task and firing are bookkeeping of the model: who opened the row
StartWorkflowExecution(rs, workflowName, triggerType, f) ==
    Append(rs, [workflow |-> workflowName, trigger |-> triggerType,
                status |-> "running", error |-> NoErr, completed |-> FALSE,
                completes |-> 0, firing |-> f])

\* a completion that writes the status and leaves completed_at and
\* duration_ms null
CompleteWorkflowExecutionStatusOnly(rs, id, status, errorMsg) ==
    [rs EXCEPT ![id] = [@ EXCEPT !.status = status, !.error = errorMsg,
                                 !.completes = @ + 1]]

CompleteWorkflowExecution(rs, id, status, errorMsg) ==
    [rs EXCEPT ![id] = [@ EXCEPT !.status = status, !.error = errorMsg,
                                 !.completed = TRUE, !.completes = @ + 1]]

(***************************************************************************)
(* server package: the workflow registry.                                  *)
(***************************************************************************)
RegisterWorkflow(reg, wf) ==
    LET info == [Status |-> "active", Schedule |-> wf.Trigger.Schedule,
                 TotalRuns |-> 0, SuccessCount |-> 0, FailureCount |-> 0,
                 LastError |-> NoErr]
    IN  IF wf.Name \in DOMAIN reg THEN [reg EXCEPT ![wf.Name] = info]
        ELSE reg @@ (wf.Name :> info)

UnregisterWorkflow(reg, name) ==
    IF name \in DOMAIN reg THEN [reg EXCEPT ![name].Status = "stopped"] ELSE reg

\* an update that counts a run only when it succeeded
UpdateExecutionStatsSuccessOnly(reg, name, success, errorMsg) ==
    IF name \notin DOMAIN reg THEN reg
    ELSE [reg EXCEPT ![name] =
            IF success
            THEN [@ EXCEPT !.TotalRuns = @ + 1, !.SuccessCount = @ + 1,
                           !.LastError = NoErr]
            ELSE [@ EXCEPT !.FailureCount = @ + 1,
                           !.LastError = IF errorMsg # NoErr THEN errorMsg ELSE @]]

\* UpdateExecutionStats, under the registry's lock
UpdateExecutionStats(reg, name, success, errorMsg) ==
    IF name \notin DOMAIN reg THEN reg
    ELSE [reg EXCEPT ![name] =
            IF success
            THEN [@ EXCEPT !.TotalRuns = @ + 1, !.SuccessCount = @ + 1,
                           !.LastError = NoErr]
            ELSE [@ EXCEPT !.TotalRuns = @ + 1, !.FailureCount = @ + 1,
                           !.LastError = IF errorMsg # NoErr THEN errorMsg ELSE @]]

(***************************************************************************)
(* cmd package: startWorkflow and the cancel handles.                      *)
(***************************************************************************)
\* The pair [tasks, aw] is what startWorkflow and a cancel handle change.
\* A variant of startWorkflow that stores the handle and spawns the task
\* without looking at the parse result.
startWorkflowUnparsed(S, rootLive, path, doc) ==
    [tasks |-> Append(S.tasks,
                  [path |-> path, wf |-> doc,
                   ctx |-> IF rootLive THEN "live" ELSE "cancelled",
                   st |-> "spawned"]),
     aw |-> [S.aw EXCEPT ![path] = Len(S.tasks) + 1]]

\* startWorkflow: parse, derive a context from ctx, store the cancel handle
\* under the path, spawn the task goroutine.
startWorkflow(S, rootLive, path, doc) ==
    IF ~doc.valid THEN S
    ELSE [tasks |-> Append(S.tasks,
                        [path |-> path, wf |-> doc,
                         ctx |-> IF rootLive THEN "live" ELSE "cancelled",
                         st |-> "spawned"]),
          aw |-> [S.aw EXCEPT ![path] = Len(S.tasks) + 1]]

\* a cancellation that leaves the handle in the map
cancelWorkflowKeepHandle(S, path) ==
    IF S.aw[path] = 0 THEN S
    ELSE [tasks |-> [S.tasks EXCEPT ![S.aw[path]].ctx = "cancelled"],
          aw |-> S.aw]

\* Load the handle of the path, call it, delete the entry.
cancelWorkflow(S, path) ==
    IF S.aw[path] = 0 THEN S
    ELSE [tasks |-> [S.tasks EXCEPT ![S.aw[path]].ctx = "cancelled"],
          aw |-> [S.aw EXCEPT ![path] = 0]]

\* cancelling the root context cancels every context derived from it
cancelAll(ts) == [t \in 1..Len(ts) |-> [ts[t] EXCEPT !.ctx = "cancelled"]]

Cur == [tasks |-> tasks, aw |-> activeWorkflows]

(***************************************************************************)
(* cmd package: the agent command.                                         *)
(***************************************************************************)
DirOps == {{"create"}, {"write"}, {"remove"}}

RECURSIVE loadAll(_, _, _)
RECURSIVE loadAllUntilError(_, _, _)
\* a loop that returns at the first file startWorkflow rejects
loadAllUntilError(S, files, content) ==
    IF files = <<>> THEN S
    ELSE IF content[Head(files)].present /\ ~content[Head(files)].doc.valid THEN S
    ELSE loadAllUntilError(IF content[Head(files)].present
                           THEN startWorkflow(S, TRUE, Head(files), content[Head(files)].doc)
                           ELSE S,
                           Tail(files), content)

\* the loop of loadWorkflows over the files: a failure is logged and skipped
loadAll(S, files, content) ==
    IF files = <<>> THEN S
    ELSE loadAll(IF content[Head(files)].present
                 THEN startWorkflow(S, TRUE, Head(files), content[Head(files)].doc)
                 ELSE S,
                 Tail(files), content)

\* a loadWorkflows that starts the workflows whatever the flag says
loadWorkflowsIgnoreDryRun(S, files, content, dry) == loadAll(S, files, content)

\* loadWorkflows: with --dry-run the plan is printed and nothing is started
loadWorkflows(S, files, content, dry) ==
    IF dry THEN S ELSE loadAll(S, files, content)

\* the agent command: loadWorkflows over the directory; with --dry-run it
\* returns, otherwise the gauge is set and the directory watcher is set up
LoadWorkflows ==
    /\ agent = "init"
    /\ subcommand = "agent"
    /\ LET S == loadWorkflows(Cur, <<"p1.yaml", "p2.yaml">>, dir, dryRun) IN
        /\ tasks' = S.tasks
        /\ activeWorkflows' = S.aw
        /\ activeGauge' = IF dryRun THEN activeGauge
                          ELSE Cardinality({q \in Paths : S.aw[q] # 0})
    /\ agent' = IF dryRun THEN "exited" ELSE "running"
    /\ sup' = IF watch /\ ~dryRun THEN SupIdle ELSE sup
    /\ UNCHANGED <<dir, watch, nEvents, firings, rows, triggerFires, workflowExecutions,
                   registry, actionExecutions, xVars>>

\* the run command on the file p1.yaml: parse; with --dry-run print the plan
\* and return; otherwise call the start function of the trigger and block.
\* The command stores no cancel handle and installs no signal handler.
RunCommand ==
    /\ agent = "init"
    /\ subcommand = "run"
    /\ LET file == dir["p1.yaml"] IN
        IF ~file.present \/ ~file.doc.valid \/ dryRun
        THEN /\ agent' = "exited"
             /\ UNCHANGED tasks
        ELSE /\ agent' = "running"
             /\ tasks' = Append(tasks, [path |-> "p1.yaml", wf |-> file.doc,
                                        ctx |-> "live", st |-> "spawned"])
    /\ UNCHANGED <<dir, watch, sup, nEvents, activeWorkflows, firings, rows, triggerFires,
                   workflowExecutions, registry, activeGauge, actionExecutions, xVars>>

\* the shutdown signal of the agent: cancel(), then the two-second drain
Shutdown ==
    /\ agent = "running"
    /\ subcommand = "agent"
    /\ agent' = "draining"
    /\ tasks' = cancelAll(tasks)
    /\ UNCHANGED <<dir, watch, sup, nEvents, activeWorkflows, firings, rows, triggerFires,
                   workflowExecutions, registry, activeGauge, actionExecutions, xVars>>

\* the process may end at any point of the drain: no further step is taken
Alive == agent \in {"running", "draining"}

\* the two-second sleep of Run is over: the HTTP server is stopped and Run
\* returns, which ends the process and every goroutine still running
ProcessExit ==
    /\ agent = "draining"
    /\ agent' = "exited"
    /\ UNCHANGED <<dir, watch, sup, nEvents, activeWorkflows, tasks, firings, rows,
                   triggerFires, workflowExecutions, registry, activeGauge,
                   actionExecutions, xVars>>

\* the file an edit of the directory leaves behind
Edits(path, ops) ==
    IF ops \cap {"create", "write"} # {}
    THEN {FileOf(d) : d \in DocsAt(path)}
    ELSE {NoFile}

\* an edit of the directory is possible: a write or a remove needs the file
CanEdit(path, ops) ==
    ops \cap {"write", "remove"} # {} => dir[path].present

\* a file of the directory is edited and the watcher goroutine takes the
\* event and handles it up to its first sleep
SupReceive(path, ops, file) ==
    /\ Alive
    /\ sup.pc = "select"
    /\ nEvents < MaxEvents
    /\ CanEdit(path, ops)
    /\ dir' = [dir EXCEPT ![path] = file]
    /\ nEvents' = nEvents + 1
    /\ IF "create" \in ops THEN
            /\ sup' = [pc |-> "createSleep", path |-> path, ops |-> ops]
            /\ UNCHANGED <<tasks, activeWorkflows>>
       ELSE LET S == IF ops \cap {"write", "remove"} # {}
                     THEN cancelWorkflow(Cur, path) ELSE Cur IN
            /\ tasks' = S.tasks
            /\ activeWorkflows' = S.aw
            /\ sup' = IF "write" \in ops
                      THEN [pc |-> "writeSleep", path |-> path, ops |-> ops]
                      ELSE SupIdle
    /\ UNCHANGED <<watch, agent, firings, rows, triggerFires, workflowExecutions,
                   registry, activeGauge, actionExecutions, xVars>>

\* after the settling delay of a create event: start, then the write and
\* remove parts of the same event
SupCreateStart ==
    /\ Alive
    /\ sup.pc = "createSleep"
    /\ LET S1 == startWorkflow(Cur, agent = "running", sup.path, dir[sup.path].doc)
           S2 == IF sup.ops \cap {"write", "remove"} # {}
                 THEN cancelWorkflow(S1, sup.path) ELSE S1
       IN  /\ tasks' = S2.tasks
           /\ activeWorkflows' = S2.aw
    /\ sup' = IF "write" \in sup.ops THEN [sup EXCEPT !.pc = "writeSleep"] ELSE SupIdle
    /\ UNCHANGED <<dir, watch, agent, nEvents, firings, rows, triggerFires, workflowExecutions,
                   registry, activeGauge, actionExecutions, xVars>>

\* after the settling delay of a write event: start the updated workflow,
\* then the remove part of the same event
SupWriteStart ==
    /\ Alive
    /\ sup.pc = "writeSleep"
    /\ LET S1 == startWorkflow(Cur, agent = "running", sup.path, dir[sup.path].doc)
           S2 == IF "remove" \in sup.ops THEN cancelWorkflow(S1, sup.path) ELSE S1
       IN  /\ tasks' = S2.tasks
           /\ activeWorkflows' = S2.aw
    /\ sup' = SupIdle
    /\ UNCHANGED <<dir, watch, agent, nEvents, firings, rows, triggerFires, workflowExecutions,
                   registry, activeGauge, actionExecutions, xVars>>

\* the watcher goroutine selects ctx.Done() and returns
SupExit ==
    /\ agent = "draining"
    /\ sup.pc = "select"
    /\ sup' = [sup EXCEPT !.pc = "exited"]
    /\ UNCHANGED <<dir, watch, agent, nEvents, activeWorkflows, tasks, firings, rows, triggerFires,
                   workflowExecutions, registry, activeGauge, actionExecutions, xVars>>

(***************************************************************************)
(* trigger package.                                                        *)
(***************************************************************************)
setTask(t, field, value) == [tasks EXCEPT ![t] = [@ EXCEPT ![field] = value]]

\* the task goroutine of startWorkflow runs StartCronTrigger or
\* StartFileWatchTrigger; a failed start runs the deferred cancel.  The
\* cron trigger is the one of cron.go that takes the task's context; the
\* file watcher of filewatch.go takes none and never looks at it.
TriggerStart(t) ==
    /\ Alive
    /\ tasks[t].st = "spawned"
    /\ LET wf == tasks[t].wf IN
       IF wf.Trigger.Type = "cron" THEN
           /\ registry' = RegisterWorkflow(registry, wf)
           /\ tasks' = IF validSchedule(wf.Trigger.Schedule)
                       THEN setTask(t, "st", "running")
                       ELSE [tasks EXCEPT ![t] = [@ EXCEPT !.st = "failed", !.ctx = "cancelled"]]
       ELSE
           /\ \E pathExists \in BOOLEAN :
                tasks' = IF pathExists /\ wf.Trigger.Path # "" /\ wf.Trigger.Events # {}
                         THEN setTask(t, "st", "watching")
                         ELSE [tasks EXCEPT ![t] = [@ EXCEPT !.st = "failed", !.ctx = "cancelled"]]
           /\ UNCHANGED registry
    /\ UNCHANGED <<dir, watch, agent, sup, nEvents, activeWorkflows, firings, rows, triggerFires,
                   workflowExecutions, activeGauge, actionExecutions, xVars>>

\* the goroutine that waits for ctx.Done() and calls c.Stop()
CronStop(t) ==
    /\ Alive
    /\ tasks[t].st = "running"
    /\ tasks[t].ctx = "cancelled"
    /\ tasks' = setTask(t, "st", "stopping")
    /\ UNCHANGED <<dir, watch, agent, sup, nEvents, activeWorkflows, firings, rows, triggerFires,
                   workflowExecutions, registry, activeGauge, actionExecutions, xVars>>

ActiveFirings(t) == {f \in FiringIds : firings[f].task = t /\ firings[f].pc # "done"}

\* a stop that does not wait on the context returned by c.Stop()
CronStoppedUnawaited(t) ==
    /\ Alive
    /\ tasks[t].st = "stopping"
    /\ tasks' = setTask(t, "st", "stopped")
    /\ registry' = UnregisterWorkflow(registry, tasks[t].wf.Name)
    /\ UNCHANGED <<dir, watch, agent, sup, nEvents, activeWorkflows, firings, rows, triggerFires,
                   workflowExecutions, activeGauge, actionExecutions, xVars>>

\* the context returned by c.Stop() is done once the running jobs have
\* returned; then the workflow is unregistered
CronStopped(t) ==
    /\ Alive
    /\ tasks[t].st = "stopping"
    /\ ActiveFirings(t) = {}
    /\ tasks' = setTask(t, "st", "stopped")
    /\ registry' = UnregisterWorkflow(registry, tasks[t].wf.Name)
    /\ UNCHANGED <<dir, watch, agent, sup, nEvents, activeWorkflows, firings, rows, triggerFires,
                   workflowExecutions, activeGauge, actionExecutions, xVars>>

NewFiring(t, kind, execID) ==
    [task |-> t, kind |-> kind, pc |-> "run", status |-> "success",
     err |-> NoErr, execID |-> execID, dbOk |-> execID > 0, log |-> <<>>]

\* a schedule instant of a started scheduler: the job starts in a goroutine
\* of its own and runs its head: trigger metric, then the history row
CronFire(t) ==
    /\ Alive
    /\ tasks[t].st = "running"
    /\ Len(firings) < MaxFirings
    /\ LET wf == tasks[t].wf
           f == Len(firings) + 1
       IN  /\ triggerFires' = Inc(triggerFires, <<wf.Name, "cron">>)
           /\ \E dbOk \in BOOLEAN :
                IF dbOk THEN
                    /\ rows' = StartWorkflowExecution(rows, wf.Name, "cron", f)
                    /\ firings' = Append(firings, NewFiring(t, "cron", Len(rows) + 1))
                ELSE
                    /\ rows' = rows
                    /\ firings' = Append(firings, NewFiring(t, "cron", 0))
    /\ UNCHANGED <<dir, watch, agent, sup, nEvents, activeWorkflows, tasks, workflowExecutions,
                   registry, activeGauge, actionExecutions, xVars>>

\* an aggregate status that a later success resets
aggregateStatusReset(status, err) == IF err # NoErr THEN "failed" ELSE "success"

\* workflowStatus after one action of the chain
aggregateStatus(status, err) == IF err # NoErr THEN "failed" ELSE status

\* workflowError after one action of the chain
aggregateError(prev, err) == IF err # NoErr THEN err ELSE prev

\* the log of a chain is bookkeeping of the model: which action was
\* dispatched, whether an executor ran for it, what it returned and the
\* aggregate status after it
LogEntry(i, action, ran, err, status) ==
    [idx |-> i, type |-> action.Type, name |-> action.Name, ran |-> ran,
     err |-> err, status |-> status]

\* the environments of a chain: for every action the exit statuses of its
\* shell runs and the answers to its requests
ChainExitEnvs(wf) ==
    {e \in [1..Len(wf.Actions) -> UNION {ChainExits(wf.Actions[k]) : k \in 1..Len(wf.Actions)}] :
        \A k \in 1..Len(wf.Actions) :
            e[k] \in IF wf.Actions[k].Type = "bash"
                     THEN ChainExits(wf.Actions[k])
                     ELSE {[j \in 1..attemptsOf(wf.Actions[k]) |-> 0]}}

ChainRespEnvs(wf) ==
    {e \in [1..Len(wf.Actions) -> UNION {ChainResps(wf.Actions[k]) : k \in 1..Len(wf.Actions)}] :
        \A k \in 1..Len(wf.Actions) :
            e[k] \in IF wf.Actions[k].Type = "http"
                     THEN ChainResps(wf.Actions[k])
                     ELSE {[j \in 1..attemptsOf(wf.Actions[k]) |-> Resp200ok]}}

\* the action loop of the cron job from action k on; acc carries
\* workflowStatus, workflowError, the action counters and the log
RECURSIVE cronChain(_, _, _, _, _)
cronChain(wf, exits, resps, k, acc) ==
    IF k > Len(wf.Actions) THEN acc
    ELSE
        LET action == wf.Actions[k]
            ran == action.Type \in {"bash", "http"}
            r == CASE action.Type = "bash" -> ExecuteBashAction(action, wf.Name, exits[k])
                   [] action.Type = "http" -> ExecuteHttpAction(action, wf.Name, resps[k])
                   [] OTHER -> NoResult
            status == aggregateStatus(acc.status, r.err)
        IN  cronChain(wf, exits, resps, k + 1,
                [status |-> status,
                 err |-> aggregateError(acc.err, r.err),
                 counter |-> RecordActionExecution(acc.counter, wf.Name, action, r.metric),
                 log |-> Append(acc.log, LogEntry(k, action, ran, r.err, status))])

\* a job that returns when the history row could not be opened
CronRunNeedsRecord(f) ==
    /\ Alive
    /\ firings[f].kind = "cron"
    /\ firings[f].pc = "run"
    /\ LET fr == firings[f]
           wf == tasks[fr.task].wf
       IN  \E exits \in ChainExitEnvs(wf), resps \in ChainRespEnvs(wf) :
            LET acc == cronChain(wf, exits, resps, 1,
                           [status |-> "success", err |-> NoErr,
                            counter |-> actionExecutions, log |-> <<>>])
            IN  IF fr.execID > 0
                THEN /\ actionExecutions' = acc.counter
                     /\ workflowExecutions' = Inc(workflowExecutions, <<wf.Name, acc.status>>)
                     /\ rows' = CompleteWorkflowExecution(rows, fr.execID, acc.status, acc.err)
                     /\ registry' = UpdateExecutionStats(registry, wf.Name, acc.status = "success", acc.err)
                     /\ firings' = [firings EXCEPT ![f] =
                                       [@ EXCEPT !.pc = "done", !.status = acc.status,
                                                 !.err = acc.err, !.log = acc.log]]
                ELSE /\ firings' = [firings EXCEPT ![f] = [@ EXCEPT !.pc = "done"]]
                     /\ UNCHANGED <<actionExecutions, workflowExecutions, rows, registry>>
    /\ UNCHANGED <<dir, watch, agent, sup, nEvents, activeWorkflows, tasks, triggerFires,
                   activeGauge, xVars>>

\* the body of the cron job after its head: the action loop, the workflow
\* metric, the completion write and the registry update
CronRun(f) ==
    /\ Alive
    /\ firings[f].kind = "cron"
    /\ firings[f].pc = "run"
    /\ LET fr == firings[f]
           wf == tasks[fr.task].wf
       IN  \E exits \in ChainExitEnvs(wf), resps \in ChainRespEnvs(wf) :
            LET acc == cronChain(wf, exits, resps, 1,
                           [status |-> "success", err |-> NoErr,
                            counter |-> actionExecutions, log |-> <<>>])
            IN  /\ actionExecutions' = acc.counter
                /\ workflowExecutions' = Inc(workflowExecutions, <<wf.Name, acc.status>>)
                /\ rows' = IF fr.execID > 0
                           THEN CompleteWorkflowExecution(rows, fr.execID, acc.status, acc.err)
                           ELSE rows
                /\ registry' = UpdateExecutionStats(registry, wf.Name, acc.status = "success", acc.err)
                /\ firings' = [firings EXCEPT ![f] =
                                  [@ EXCEPT !.pc = "done", !.status = acc.status,
                                            !.err = acc.err, !.log = acc.log]]
    /\ UNCHANGED <<dir, watch, agent, sup, nEvents, activeWorkflows, tasks, triggerFires,
                   activeGauge, xVars>>

FsOps == {{"create"}, {"write"}, {"remove"}, {"create", "write"}}

\* the operation names of fsnotify and their bits in Event.Op
FsNames == {"create", "write", "remove", "rename", "chmod"}

opBit(name) ==
    CASE name = "create" -> 1
      [] name = "write" -> 2
      [] name = "remove" -> 4
      [] name = "rename" -> 8
      [] name = "chmod" -> 16
      [] OTHER -> 0

\* event.Op & bit == bit
hasBit(mask, bit) == bit > 0 /\ (mask \div bit) % 2 = 1

RECURSIVE matchEvents(_, _)

\* a loop that looks at the first entry of the events list only
matchEventsFirstOnly(events, mask) ==
    IF events = <<>> THEN FALSE
    ELSE hasBit(mask, opBit(Head(events)))

\* the loop over wf.Trigger.Events with its switch on the entry
matchEvents(events, mask) ==
    IF events = <<>> THEN FALSE
    ELSE IF Head(events) \in FsNames /\ hasBit(mask, opBit(Head(events))) THEN TRUE
    ELSE matchEvents(Tail(events), mask)

RECURSIVE MaskOf(_)
MaskOf(op) ==
    IF op = {} THEN 0
    ELSE LET n == CHOOSE x \in op : TRUE IN opBit(n) + MaskOf(op \ {n})

RECURSIVE ListOf(_)
ListOf(events) ==
    IF events = {} THEN <<>>
    ELSE LET n == CHOOSE x \in events : TRUE IN <<n>> \o ListOf(events \ {n})

\* events and op given as sets of operation names
shouldTrigger(events, op) == matchEvents(ListOf(events), MaskOf(op))

\* the event loop of the file watcher receives one event of the watched path
FsEvent(t, op) ==
    /\ Alive
    /\ tasks[t].st = "watching"
    /\ ActiveFirings(t) = {}
    /\ Len(firings) < MaxFirings
    /\ firings' = IF shouldTrigger(tasks[t].wf.Trigger.Events, op)
                  THEN Append(firings, NewFiring(t, "filewatch", 0))
                  ELSE firings
    /\ UNCHANGED <<dir, watch, agent, sup, nEvents, activeWorkflows, tasks, rows, triggerFires,
                   workflowExecutions, registry, activeGauge, actionExecutions, xVars>>

\* the action loop of the file watcher from action k on
RECURSIVE fileWatchChain(_, _, _, _)
fileWatchChain(wf, exits, k, log) ==
    IF k > Len(wf.Actions) THEN log
    ELSE
        LET action == wf.Actions[k]
            ran == action.Type = "bash"
            r == IF action.Type = "bash"
                 THEN ExecuteBashAction(action, "", exits[k])
                 ELSE NoResult
        IN  fileWatchChain(wf, exits, k + 1,
                Append(log, LogEntry(k, action, ran, r.err, "none")))

\* the action loop runs inside the event loop
FileWatchRun(f) ==
    /\ Alive
    /\ firings[f].kind = "filewatch"
    /\ firings[f].pc = "run"
    /\ LET fr == firings[f]
           wf == tasks[fr.task].wf
       IN  \E exits \in ChainExitEnvs(wf) :
            firings' = [firings EXCEPT ![f] =
                           [@ EXCEPT !.pc = "done", !.status = "none",
                                     !.log = fileWatchChain(wf, exits, 1, <<>>)]]
    /\ UNCHANGED <<dir, watch, agent, sup, nEvents, activeWorkflows, tasks, rows, triggerFires,
                   workflowExecutions, registry, activeGauge, actionExecutions, xVars>>

(***************************************************************************)
(* retry package: ExecuteWithRetry step by step, with its backoff delays.  *)
(* Durations are in milliseconds.                                          *)
(***************************************************************************)
DefaultInitialDelay == 1000

DefaultMaxDelay == 60000

DefaultMultiplier == 2

\* time.ParseDuration on the strings the model uses
durationOf(s) ==
    CASE s = "1s" -> 1000
      [] s = "5s" -> 5000
      [] s = "10s" -> 10000
      [] OTHER -> 0

parseDuration(s, defaultValue) ==
    IF s = "" THEN defaultValue
    ELSE IF ~validDuration(s) THEN defaultValue
    ELSE durationOf(s)

RECURSIVE Pow(_, _)
Pow(b, e) == IF e = 0 THEN 1 ELSE b * Pow(b, e - 1)

\* rand.Float64()*2 - 1 lies in [-1, 1): the jitter in percent of the delay,
\* at most 10 % down and less than 10 % up
JitterPercents == {-10, -5, 0, 5, 9}

\* a backoff that is never capped at maxDelay
calculateDelayNoCap(attempt, initialDelay, maxDelay, multiplier, jitterPercent) ==
    LET delay == initialDelay * Pow(multiplier, attempt)
        finalDelay == delay + (delay * jitterPercent) \div 100
    IN  IF finalDelay < initialDelay THEN initialDelay ELSE finalDelay

calculateDelay(attempt, initialDelay, maxDelay, multiplier, jitterPercent) ==
    LET raw == initialDelay * Pow(multiplier, attempt)
        delay == IF raw > maxDelay THEN maxDelay ELSE raw
        finalDelay == delay + (delay * jitterPercent) \div 100
    IN  IF finalDelay < initialDelay THEN initialDelay ELSE finalDelay

\* a *workflow.RetryConfig with its backoff fields; present = FALSE is nil
BackoffConfig(n, on, initial, max, mult) ==
    [present |-> TRUE, MaxAttempts |-> n, RetryOn |-> on,
     InitialDelay |-> initial, MaxDelay |-> max, Multiplier |-> mult]

NoBackoff ==
    [present |-> FALSE, MaxAttempts |-> 0, RetryOn |-> <<>>,
     InitialDelay |-> "", MaxDelay |-> "", Multiplier |-> 0]

\* the defaults ExecuteWithRetry sets before its loop
initialDelayOf(cfg) == parseDuration(cfg.InitialDelay, DefaultInitialDelay)

maxDelayOf(cfg) == parseDuration(cfg.MaxDelay, DefaultMaxDelay)

multiplierOf(cfg) == IF cfg.Multiplier <= 0 THEN DefaultMultiplier ELSE cfg.Multiplier

BackoffConfigs ==
    {NoBackoff} \cup
    {BackoffConfig(n, on, initial, max, mult) :
        n \in 0..MaxAttemptsBound,
        on \in { <<>>, << <<"timeout">> >> },
        initial \in {"", "5s"},
        max \in {"", "1s", "5s", "bogus"},
        mult \in {0, 1, 3}}

\* what one invocation of fn may return
RetryErrs == {NoErr, <<"request", "timeout">>, <<"exit", "code", "2">>}

InitRetry ==
    /\ rCfg \in BackoffConfigs
    /\ rOuts \in [1..EnvLen -> RetryErrs]
    /\ rAttempt = 1
    /\ rPc = "call"
    /\ rCtx = "live"
    /\ rCalls = 0
    /\ rDelays = <<>>
    /\ rErr = NoErr

InitIdleRetry ==
    /\ rCfg = NoBackoff
    /\ rOuts = [k \in 1..EnvLen |-> NoErr]
    /\ rAttempt = 1
    /\ rPc = "idle"
    /\ rCtx = "live"
    /\ rCalls = 0
    /\ rDelays = <<>>
    /\ rErr = NoErr

\* one invocation of fn and what the loop does with its outcome, up to the
\* return or to the call of time.Sleep
RetryAttempt ==
    /\ rPc = "call"
    /\ rCalls' = rCalls + 1
    /\ LET err == rOuts[rAttempt] IN
       IF ~rCfg.present \/ rCfg.MaxAttempts <= 0 THEN
            /\ rErr' = err /\ rPc' = "done" /\ rDelays' = rDelays
       ELSE IF err = NoErr THEN
            /\ rErr' = NoErr /\ rPc' = "done" /\ rDelays' = rDelays
       ELSE IF lastAttempt(rAttempt, rCfg.MaxAttempts) THEN
            /\ rErr' = err /\ rPc' = "done" /\ rDelays' = rDelays
       ELSE IF ~shouldRetry(err, rCfg.RetryOn) THEN
            /\ rErr' = err /\ rPc' = "done" /\ rDelays' = rDelays
       ELSE \E jitterPercent \in JitterPercents :
            /\ rDelays' = Append(rDelays,
                              calculateDelay(rAttempt - 1, initialDelayOf(rCfg),
                                             maxDelayOf(rCfg), multiplierOf(rCfg),
                                             jitterPercent))
            /\ rPc' = "sleep"
            /\ rErr' = rErr
    /\ UNCHANGED <<rCfg, rOuts, rAttempt, rCtx>>

\* time.Sleep returns when the delay has passed, whatever the scope's state
RetryWake ==
    /\ rPc = "sleep"
    /\ rAttempt' = rAttempt + 1
    /\ rPc' = "call"
    /\ UNCHANGED <<rCfg, rOuts, rCtx, rCalls, rDelays, rErr>>

\* the scope of the task that made the call is cancelled
RetryScopeCancel ==
    /\ rPc \in {"call", "sleep"}
    /\ rCtx = "live"
    /\ rCtx' = "cancelled"
    /\ UNCHANGED <<rCfg, rOuts, rAttempt, rPc, rCalls, rDelays, rErr>>

(***************************************************************************)
(* trigger package: StartFileWatchTrigger called directly on a workflow,   *)
(* and the events its loop receives.                                       *)
(***************************************************************************)
\* entries an events list may hold when the parser has not seen it
EventEntries == FsNames \cup {"bogus"}

EventLists ==
    {<<>>} \cup {<<a>> : a \in EventEntries}
           \cup {<<a, b>> : a \in EventEntries, b \in EventEntries}

\* the Event.Op values delivered: single operations and combinations
FsMasks == {1, 2, 4, 8, 16, 3, 6, 24}

WatchTriggers ==
    {[Type |-> "filewatch", Schedule |-> "", Path |-> path, Events |-> events] :
        path \in {"/tmp/wd", ""}, events \in EventLists}
    \cup {[Type |-> "cron", Schedule |-> "*/5 * * * *", Path |-> "/tmp/wd",
           Events |-> <<"create">>]}

NoTriggerCall == [fn |-> "none", pathExists |-> FALSE]

InitWatcher ==
    /\ wTrig \in WatchTriggers
    /\ wSt = "init"
    /\ wSeen = <<>>
    /\ wCall = NoTriggerCall

InitIdleWatcher ==
    /\ wTrig = [Type |-> "filewatch", Schedule |-> "", Path |-> "", Events |-> <<>>]
    /\ wSt = "idle"
    /\ wSeen = <<>>
    /\ wCall = NoTriggerCall

\* a setup that does not look at the result of watcher.Add
fileWatchSetupOkNoAddCheck(trig, pathExists) ==
    /\ trig.Type = "filewatch"
    /\ trig.Path # ""
    /\ Len(trig.Events) # 0

\* the checks of StartFileWatchTrigger and watcher.Add
fileWatchSetupOk(trig, pathExists) ==
    /\ trig.Type = "filewatch"
    /\ trig.Path # ""
    /\ Len(trig.Events) # 0
    /\ pathExists

\* StartFileWatchTrigger up to the start of its event loop; on an error the
\* watcher is closed and no loop is started
WatcherStart(pathExists) ==
    /\ wSt = "init"
    /\ wSt' = IF fileWatchSetupOk(wTrig, pathExists) THEN "watching" ELSE "failed"
    /\ wCall' = [fn |-> "StartFileWatchTrigger", pathExists |-> pathExists]
    /\ UNCHANGED <<wTrig, wSeen>>

\* a loop that merges an event into the execution of the event before it
\* when both carry the same operations
WatcherEventDebounced(mask) ==
    /\ wSt = "watching"
    /\ Len(wSeen) < MaxWatchEvents
    /\ wSeen' = Append(wSeen,
                    [op |-> mask,
                     fired |-> /\ matchEvents(wTrig.Events, mask)
                               /\ ~(/\ Len(wSeen) > 0
                                     /\ wSeen[Len(wSeen)].op = mask
                                     /\ wSeen[Len(wSeen)].fired)])
    /\ UNCHANGED <<wTrig, wSt, wCall>>

\* one event of watcher.Events taken by the loop; fired tells whether the
\* action chain was run for it
WatcherEvent(mask) ==
    /\ wSt = "watching"
    /\ Len(wSeen) < MaxWatchEvents
    /\ wSeen' = Append(wSeen, [op |-> mask, fired |-> matchEvents(wTrig.Events, mask)])
    /\ UNCHANGED <<wTrig, wSt, wCall>>

\* triggers handed to the start functions by a caller that skipped the parser
StartTriggers ==
    WatchTriggers
    \cup {[Type |-> "cron", Schedule |-> "not a schedule", Path |-> "", Events |-> <<>>]}

InitTriggerStart ==
    /\ wTrig \in StartTriggers
    /\ wSt = "init"
    /\ wSeen = <<>>
    /\ wCall = NoTriggerCall

\* StartCronTrigger up to c.Start(): AddFunc parses the schedule; on an error
\* the function returns and the scheduler is never started
CronStart ==
    /\ wSt = "init"
    /\ wSt' = IF validSchedule(wTrig.Schedule) THEN "scheduled" ELSE "failed"
    /\ wCall' = [fn |-> "StartCronTrigger", pathExists |-> FALSE]
    /\ UNCHANGED <<wTrig, wSeen>>

\* a schedule instant of the started scheduler runs the job
CronTick ==
    /\ wSt = "scheduled"
    /\ Len(wSeen) < MaxWatchEvents
    /\ wSeen' = Append(wSeen, [op |-> 0, fired |-> TRUE])
    /\ UNCHANGED <<wTrig, wSt, wCall>>

(***************************************************************************)
(* database package called directly, as any importer of it may.            *)
(***************************************************************************)
NotInitialized == <<"database", "not", "initialized">>

NoCall == [n |-> 0, op |-> "none", id |-> 0, ret |-> NoErr]

InitIdleStore ==
    /\ sDb = FALSE
    /\ sCall = NoCall

StoreNames == {"A", "B"}

StoreErrors == {NoErr, <<"boom">>}

\* StartWorkflowExecution(workflowName, triggerType)
StoreStart(workflowName) ==
    /\ Len(rows) < MaxRows
    /\ sCall.n < MaxCalls
    /\ IF sDb THEN
            /\ rows' = StartWorkflowExecution(rows, workflowName, "cron", 0)
            /\ sCall' = [n |-> sCall.n + 1, op |-> "start", id |-> Len(rows) + 1,
                         ret |-> NoErr]
       ELSE /\ rows' = rows
            /\ sCall' = [n |-> sCall.n + 1, op |-> "start", id |-> 0,
                         ret |-> NotInitialized]
    /\ UNCHANGED sDb

\* CompleteWorkflowExecution(id, status, errorMsg, duration): one UPDATE
\* ... WHERE id = ?, which changes no row when the id is unknown
StoreComplete(id, status, errorMsg) ==
    /\ sCall.n < MaxCalls
    /\ IF sDb THEN
            /\ rows' = IF id \in 1..Len(rows)
                       THEN CompleteWorkflowExecution(rows, id, status, errorMsg)
                       ELSE rows
            /\ sCall' = [n |-> sCall.n + 1, op |-> "complete", id |-> id, ret |-> NoErr]
       ELSE /\ rows' = rows
            /\ sCall' = [n |-> sCall.n + 1, op |-> "complete", id |-> id,
                         ret |-> NotInitialized]
    /\ UNCHANGED sDb

(***************************************************************************)
(* Specifications.                                                         *)
(***************************************************************************)
(***************************************************************************)
(* trigger package: the next-execution updater of StartCronTrigger.  Time  *)
(* is in seconds and advances in steps of ten.                             *)
(***************************************************************************)
\* the period of the updater's ticker, in seconds
TickerSeconds == 30

InitIdleUpdater ==
    /\ uNow = 0
    /\ uSched = 60
    /\ uEntry = 0
    /\ uReg = 0
    /\ uDone = 0
    /\ uLast = 0
    /\ uTick = 0
    /\ uPc = "idle"

\* StartCronTrigger is called at some second of the minute, with a schedule
\* of every minute or every second minute
InitUpdater ==
    /\ uNow \in {0, 10, 20, 30, 40, 50}
    /\ uSched \in {60, 120}
    /\ uEntry = 0
    /\ uReg = 0
    /\ uDone = 0
    /\ uLast = 0
    /\ uTick = 0
    /\ uPc = "init"

\* the first instant of the schedule after now
nextInstant(now, period) == ((now \div period) + 1) * period

\* UpdateNextExecution of the registry
UpdateNextExecution(reg, nextTime) == nextTime

\* c.Start(), the first UpdateNextExecution and the start of the ticker
UpdaterStart ==
    /\ uPc = "init"
    /\ uEntry' = nextInstant(uNow, uSched)
    /\ uReg' = UpdateNextExecution(uReg, nextInstant(uNow, uSched))
    /\ uTick' = uNow + TickerSeconds
    /\ uPc' = "running"
    /\ UNCHANGED <<uNow, uSched, uDone, uLast>>

\* the instant entry.Next has come: the scheduler moves entry.Next on and
\* runs the job, which returns without a call of UpdateNextExecution
CronInstant ==
    /\ uPc = "running"
    /\ uEntry = uNow
    /\ uEntry' = uNow + uSched
    /\ uDone' = uDone + 1
    /\ uLast' = uNow
    /\ UNCHANGED <<uNow, uSched, uReg, uTick, uPc>>

\* the ticker of the updater goroutine fires
UpdaterTick ==
    /\ uPc = "running"
    /\ uTick = uNow
    /\ uReg' = IF uEntry # 0 THEN UpdateNextExecution(uReg, uEntry) ELSE uReg
    /\ uTick' = uNow + TickerSeconds
    /\ UNCHANGED <<uNow, uSched, uEntry, uDone, uLast, uPc>>

\* ten seconds pass once everything due now has run
ClockAdvance ==
    /\ uPc \in {"init", "running", "stopped"}
    /\ uNow < 10 * MaxClockSteps
    /\ uPc = "running" => (uEntry # uNow /\ uTick # uNow)
    /\ uNow' = uNow + 10
    /\ UNCHANGED <<uSched, uEntry, uReg, uDone, uLast, uTick, uPc>>

\* ctx.Done(): the updater returns and the scheduler is stopped
UpdaterStop ==
    /\ uPc = "running"
    /\ uPc' = "stopped"
    /\ UNCHANGED <<uNow, uSched, uEntry, uReg, uDone, uLast, uTick>>

(***************************************************************************)
(* parser package: validateWorkflow on a decoded document.                 *)
(***************************************************************************)
\* a decoded action with every field of the Action struct that the
\* validation reads; Headers is the number of headers, Arguments tells
\* whether the field is non-nil
RawAction(type, name, command, url, method, headers, body, functionName, arguments) ==
    [Type |-> type, Name |-> name, Command |-> command, URL |-> url,
     Method |-> method, Headers |-> headers, Body |-> body,
     FunctionName |-> functionName, Arguments |-> arguments]

RawTrigger(type, schedule, path, events) ==
    [Type |-> type, Schedule |-> schedule, Path |-> path, Events |-> events]

RawWorkflow(name, trigger, actions) ==
    [Name |-> name, Trigger |-> trigger, Actions |-> actions]

hasHttpFields(action) ==
    action.URL # "" \/ action.Method # "" \/ action.Headers > 0 \/ action.Body # ""

\* validateFileWatchEvents: the first entry that is no event name
RECURSIVE validateFileWatchEvents(_)
validateFileWatchEvents(events) ==
    IF events = <<>> THEN NoErr
    ELSE IF Head(events) \notin FsNames
    THEN <<"invalid", "filewatch", "event", ":", Head(events)>>
    ELSE validateFileWatchEvents(Tail(events))

ValidationResult(err, warns) == [err |-> err, warns |-> warns]

\* the trigger switch of validateWorkflow
validateTrigger(trigger) ==
    CASE trigger.Type = "cron" ->
            IF trigger.Schedule = ""
            THEN ValidationResult(<<"cron", "trigger", "requires", "a", "schedule">>, 0)
            ELSE ValidationResult(NoErr,
                    IF trigger.Path # "" \/ Len(trigger.Events) > 0 THEN 1 ELSE 0)
      [] trigger.Type = "filewatch" ->
            IF trigger.Path = ""
            THEN ValidationResult(<<"filewatch", "trigger", "requires", "a", "path">>, 0)
            ELSE IF Len(trigger.Events) = 0
            THEN ValidationResult(<<"filewatch", "trigger", "requires", "at", "least",
                                    "one", "event">>, 0)
            ELSE IF validateFileWatchEvents(trigger.Events) # NoErr
            THEN ValidationResult(<<"filewatch", "trigger", "validation", "failed", ":">>
                                    \o validateFileWatchEvents(trigger.Events), 0)
            ELSE ValidationResult(NoErr, IF trigger.Schedule # "" THEN 1 ELSE 0)
      [] OTHER ->
            ValidationResult(<<"unsupported", "trigger", "type", ":", trigger.Type>>, 0)

\* a validation that only warns about an HTTP action with foreign fields
validateActionHttpMixWarns(action, i) ==
    IF action.Name = "" THEN
        ValidationResult(<<"action", "at", "index">> \o Digits(i)
                            \o <<"must", "have", "a", "name">>, 0)
    ELSE CASE action.Type = "bash" ->
            IF action.Command = ""
            THEN ValidationResult(<<"bash", "action", action.Name, "at", "index">>
                                    \o Digits(i) \o <<"must", "have", "a", "command">>, 0)
            ELSE ValidationResult(NoErr, IF hasHttpFields(action) THEN 1 ELSE 0)
      [] action.Type = "http" ->
            IF action.URL = ""
            THEN ValidationResult(<<"HTTP", "action", action.Name, "at", "index">>
                                    \o Digits(i) \o <<"must", "have", "a", "url">>, 0)
            ELSE IF action.Method = ""
            THEN ValidationResult(<<"HTTP", "action", action.Name, "at", "index">>
                                    \o Digits(i) \o <<"must", "have", "a", "method">>, 0)
            ELSE IF action.Command # "" \/ action.FunctionName # "" \/ action.Arguments
            THEN ValidationResult(NoErr, 1)
            ELSE ValidationResult(NoErr, 0)
      [] action.Type = "custom" ->
            IF action.FunctionName = ""
            THEN ValidationResult(<<"custom", "action", action.Name, "at", "index">>
                                    \o Digits(i)
                                    \o <<"must", "have", "a", "functionName">>, 0)
            ELSE ValidationResult(NoErr,
                    IF action.Command # "" \/ hasHttpFields(action) THEN 1 ELSE 0)
      [] OTHER ->
            ValidationResult(<<"action", action.Name, "at", "index">> \o Digits(i)
                                \o <<"has", "unsupported", "type", ":", action.Type>>, 0)

\* the body of the loop over wf.Actions for the action at index i
validateAction(action, i) ==
    IF action.Name = "" THEN
        ValidationResult(<<"action", "at", "index">> \o Digits(i)
                            \o <<"must", "have", "a", "name">>, 0)
    ELSE CASE action.Type = "bash" ->
            IF action.Command = ""
            THEN ValidationResult(<<"bash", "action", action.Name, "at", "index">>
                                    \o Digits(i) \o <<"must", "have", "a", "command">>, 0)
            ELSE ValidationResult(NoErr, IF hasHttpFields(action) THEN 1 ELSE 0)
      [] action.Type = "http" ->
            IF action.URL = ""
            THEN ValidationResult(<<"HTTP", "action", action.Name, "at", "index">>
                                    \o Digits(i) \o <<"must", "have", "a", "url">>, 0)
            ELSE IF action.Method = ""
            THEN ValidationResult(<<"HTTP", "action", action.Name, "at", "index">>
                                    \o Digits(i) \o <<"must", "have", "a", "method">>, 0)
            ELSE IF action.Command # "" \/ action.FunctionName # "" \/ action.Arguments
            THEN ValidationResult(<<"HTTP", "action", action.Name, "at", "index">>
                                    \o Digits(i)
                                    \o <<"has", "unexpected", "Bash", "or", "Custom",
                                         "fields">>, 0)
            ELSE ValidationResult(NoErr, 0)
      [] action.Type = "custom" ->
            IF action.FunctionName = ""
            THEN ValidationResult(<<"custom", "action", action.Name, "at", "index">>
                                    \o Digits(i)
                                    \o <<"must", "have", "a", "functionName">>, 0)
            ELSE ValidationResult(NoErr,
                    IF action.Command # "" \/ hasHttpFields(action) THEN 1 ELSE 0)
      [] OTHER ->
            ValidationResult(<<"action", action.Name, "at", "index">> \o Digits(i)
                                \o <<"has", "unsupported", "type", ":", action.Type>>, 0)

\* the loop over wf.Actions from index i on (i counts from 0)
RECURSIVE validateActions(_, _, _)
validateActions(actions, i, warns) ==
    IF i >= Len(actions) THEN ValidationResult(NoErr, warns)
    ELSE LET r == validateAction(actions[i + 1], i) IN
         IF r.err # NoErr THEN ValidationResult(r.err, warns + r.warns)
         ELSE validateActions(actions, i + 1, warns + r.warns)

validateWorkflow(wf) ==
    IF wf.Name = "" THEN
        ValidationResult(<<"workflow", "name", "cannot", "be", "empty">>, 0)
    ELSE IF Len(wf.Actions) = 0 THEN
        ValidationResult(<<"workflow", "must", "define", "at", "least", "one", "action">>, 0)
    ELSE LET t == validateTrigger(wf.Trigger) IN
         IF t.err # NoErr THEN t
         ELSE validateActions(wf.Actions, 0, t.warns)

\* the decoded documents handed to the validation
RawTriggers ==
    {RawTrigger(type, schedule, path, events) :
        type \in {"cron", "filewatch"}, schedule \in {"", "*/5 * * * *"},
        path \in {"", "/tmp/wd"}, events \in {<<>>, <<"create">>, <<"write", "bogus">>}}
    \cup {RawTrigger("webhook", "", "", <<>>)}

RawActions ==
    {RawAction(type, "a1", command, url, method, 0, body, functionName, FALSE) :
        type \in {"bash", "http", "custom"}, command \in {"", "echo hi"},
        url \in {"", "http://fixture"}, method \in {"", "GET"}, body \in {"", "{}"},
        functionName \in {"", "fn"}}
    \cup {RawAction("bash", "a1", "echo hi", "", "", 1, "", "", FALSE),
          RawAction("custom", "a1", "", "", "", 1, "", "fn", FALSE),
          RawAction("http", "a1", "", "http://fixture", "GET", 1, "", "", TRUE),
          RawAction("http", "", "", "http://fixture", "GET", 0, "", "", FALSE),
          RawAction("email", "a1", "", "", "", 0, "", "", FALSE)}

\* the actions that may follow the first one of a document
RawTailActions ==
    {RawAction("bash", "a2", "echo hi", "", "", 0, "", "", FALSE),
     RawAction("http", "a2", "echo hi", "http://fixture", "GET", 0, "", "", FALSE)}

RECURSIVE RawActionLists(_)
RawActionLists(n) ==
    IF n = 0 THEN {<<>>}
    ELSE IF n = 1 THEN {<<>>} \cup {<<a>> : a \in RawActions}
    ELSE RawActionLists(n - 1)
            \cup {Append(l, a) : l \in {m \in RawActionLists(n - 1) : Len(m) = n - 1},
                                 a \in RawTailActions}

RawWorkflows ==
    {RawWorkflow(name, trigger, actions) :
        name \in {"", "w"}, trigger \in RawTriggers,
        actions \in RawActionLists(MaxDocActions)}

NoValidation == [done |-> FALSE, err |-> NoErr, warns |-> 0]

InitIdleParser ==
    /\ pDoc = RawWorkflow("", RawTrigger("cron", "", "", <<>>), <<>>)
    /\ pRes = NoValidation

InitParser ==
    /\ pDoc \in RawWorkflows
    /\ pRes = NoValidation

CallValidateWorkflow ==
    /\ ~pRes.done
    /\ LET r == validateWorkflow(pDoc) IN
        pRes' = [done |-> TRUE, err |-> r.err, warns |-> r.warns]
    /\ UNCHANGED pDoc

(***************************************************************************)
(* database package: GetWorkflowStats called by the stats command.         *)
(***************************************************************************)
\* duration_ms of a row that was never completed (SQL NULL)
NullDuration == -1

StatsRow(workflowName, startedAt, status, durationMs) ==
    [workflow |-> workflowName, started |-> startedAt, status |-> status,
     duration |-> durationMs]

\* the first n entries of the sequence of all rows of the set S
RECURSIVE RowSeqs(_, _)
RowSeqs(S, n) ==
    IF n = 0 THEN {<<>>}
    ELSE RowSeqs(S, n - 1)
            \cup {Append(q, r) : q \in {p \in RowSeqs(S, n - 1) : Len(p) = n - 1}, r \in S}

\* the rows the history API leaves behind: a running row has no duration,
\* a terminal row has one
StatsRows ==
    {StatsRow(w, t, "running", NullDuration) : w \in {"A", "B"}, t \in {1, 2}}
    \cup {StatsRow(w, t, st, d) : w \in {"A", "B"}, t \in {1, 2},
                                  st \in {"success", "failed"}, d \in {10, 25}}

RECURSIVE SumDurations(_, _)
SumDurations(rs, S) ==
    IF S = {} THEN 0
    ELSE LET i == CHOOSE x \in S : TRUE IN rs[i].duration + SumDurations(rs, S \ {i})

NoStats ==
    [WorkflowName |-> "", TotalExecutions |-> 0, SuccessCount |-> 0,
     FailedCount |-> 0, SuccessRate |-> 0, AvgDurationMs |-> 0]

\* the SELECT over the rows of the name inside the window, grouped by name:
\* COUNT(*), the two SUMs over the status, AVG(duration_ms) over the rows
\* whose duration is not NULL.  SuccessRate is held in hundredths of a
\* percent and AvgDurationMs in hundredths of a millisecond, cut off.
GetWorkflowStats(rs, workflowName, since) ==
    LET sel == {i \in 1..Len(rs) : rs[i].workflow = workflowName /\ rs[i].started >= since}
        total == Cardinality(sel)
        success == Cardinality({i \in sel : rs[i].status = "success"})
        timed == {i \in sel : rs[i].duration # NullDuration}
    IN  IF sel = {} THEN [NoStats EXCEPT !.WorkflowName = workflowName]
        ELSE [WorkflowName |-> workflowName,
              TotalExecutions |-> total,
              SuccessCount |-> success,
              FailedCount |-> Cardinality({i \in sel : rs[i].status = "failed"}),
              SuccessRate |-> IF total > 0 THEN (success * 10000) \div total ELSE 0,
              AvgDurationMs |-> IF timed # {}
                                THEN (SumDurations(rs, timed) * 100) \div Cardinality(timed)
                                ELSE 0]

NoStatsResult == [done |-> FALSE, stats |-> NoStats]

InitIdleStats ==
    /\ InitIdleParser
    /\ InitIdleUpdater
    /\ qRows = <<>>
    /\ qName = ""
    /\ qSince = 0
    /\ qRes = NoStatsResult

\* the stats command has opened the database; the window starts at 2
InitStatsQuery ==
    /\ qRows \in RowSeqs(StatsRows, MaxStatRows)
    /\ qName \in {"A", "B"}
    /\ qSince = 2
    /\ qRes = NoStatsResult

CallGetWorkflowStats ==
    /\ ~qRes.done
    /\ qRes' = [done |-> TRUE, stats |-> GetWorkflowStats(qRows, qName, qSince)]
    /\ UNCHANGED <<qRows, qName, qSince>>

\* the process before its command has run
InitProcess ==
    /\ agent = "init"
    /\ sup = [pc |-> "off", path |-> "", ops |-> {}]
    /\ nEvents = 0
    /\ activeWorkflows = [q \in Paths |-> 0]
    /\ tasks = <<>>
    /\ firings = <<>>
    /\ rows = <<>>
    /\ triggerFires = << >>
    /\ workflowExecutions = << >>
    /\ registry = << >>
    /\ activeGauge = 0

\* the agent command without --dry-run
InitRuntime ==
    /\ InitProcess
    /\ InitIdleStats
    /\ dryRun = FALSE
    /\ subcommand = "agent"

InitAgentVars ==
    /\ dir = [q \in Paths |-> NoFile]
    /\ watch = FALSE
    /\ InitRuntime

InitIdleExecutor ==
    /\ xAct = BashAction("a1", "exit 0", NoRetry)
    /\ xWf = ""
    /\ xExits = NoExits
    /\ xResps = NoResps
    /\ xRes = NoResult
    /\ xPc = "idle"
    /\ actionExecutions = << >>
    /\ InitIdleRetry
    /\ InitIdleStore
    /\ InitIdleWatcher

\* the agent watching its directory
Init ==
    /\ dir \in WatchedDirs
    /\ watch = TRUE
    /\ InitRuntime
    /\ InitIdleExecutor

Next ==
    \/ LoadWorkflows
    \/ Shutdown
    \/ \E q \in Paths, ops \in DirOps : \E file \in Edits(q, ops) : SupReceive(q, ops, file)
    \/ SupCreateStart
    \/ SupWriteStart
    \/ SupExit
    \/ \E t \in TaskIds : TriggerStart(t)
    \/ \E t \in TaskIds : CronStop(t)
    \/ \E t \in TaskIds : CronStopped(t)
    \/ \E t \in TaskIds : CronFire(t)
    \/ \E f \in FiringIds : CronRun(f)
    \/ \E t \in TaskIds, op \in FsOps : FsEvent(t, op)
    \/ \E f \in FiringIds : FileWatchRun(f)

Spec == Init /\ [][Next]_vars

\* the agent watching its directory, seen between two schedule instants:
\* the supervisor and the start and stop of the tasks
NextSupervisor ==
    \/ LoadWorkflows
    \/ Shutdown
    \/ \E q \in Paths, ops \in DirOps : \E file \in Edits(q, ops) : SupReceive(q, ops, file)
    \/ SupCreateStart
    \/ SupWriteStart
    \/ SupExit
    \/ \E t \in TaskIds : TriggerStart(t)
    \/ \E t \in TaskIds : CronStop(t)
    \/ \E t \in TaskIds : CronStopped(t)

SpecSupervisor == Init /\ [][NextSupervisor]_vars

\* either command, with or without --dry-run, on a directory that is not
\* watched
InitDryRun ==
    /\ dir \in WatchedDirs
    /\ watch = FALSE
    /\ InitProcess
    /\ InitIdleStats
    /\ InitIdleExecutor
    /\ dryRun \in BOOLEAN
    /\ subcommand \in {"agent", "run"}

NextDryRun ==
    \/ LoadWorkflows
    \/ RunCommand
    \/ Shutdown
    \/ \E t \in TaskIds : TriggerStart(t)
    \/ \E t \in TaskIds : CronStop(t)
    \/ \E t \in TaskIds : CronStopped(t)
    \/ \E t \in TaskIds : CronFire(t)
    \/ \E f \in FiringIds : CronRun(f)
    \/ \E t \in TaskIds, op \in FsOps : FsEvent(t, op)
    \/ \E f \in FiringIds : FileWatchRun(f)

SpecDryRun == InitDryRun /\ [][NextDryRun]_vars

\* validateWorkflow called on its own, as the package test calls it
InitValidate ==
    /\ dir = [q \in Paths |-> NoFile]
    /\ watch = FALSE
    /\ InitProcess
    /\ dryRun = FALSE
    /\ subcommand = "agent"
    /\ InitIdleExecutor
    /\ qRows = <<>>
    /\ qName = ""
    /\ qSince = 0
    /\ qRes = NoStatsResult
    /\ InitParser
    /\ InitIdleUpdater

NextValidate ==
    CallValidateWorkflow
        /\ UNCHANGED <<agentVars, actionExecutions, xAct, xWf, xExits, xResps, xRes, xPc,
                       rVars, sVars, wVars, cVars, qVars, uVars>>

SpecValidate == InitValidate /\ [][NextValidate]_vars

\* StartCronTrigger on a valid schedule and the goroutines it leaves behind
InitNextExecution ==
    /\ dir = [q \in Paths |-> NoFile]
    /\ watch = FALSE
    /\ InitProcess
    /\ dryRun = FALSE
    /\ subcommand = "agent"
    /\ InitIdleExecutor
    /\ qRows = <<>>
    /\ qName = ""
    /\ qSince = 0
    /\ qRes = NoStatsResult
    /\ pDoc = RawWorkflow("", RawTrigger("cron", "", "", <<>>), <<>>)
    /\ pRes = NoValidation
    /\ InitUpdater

UpdaterFrame ==
    UNCHANGED <<agentVars, actionExecutions, xAct, xWf, xExits, xResps, xRes, xPc,
                rVars, sVars, wVars, cVars, qVars, pVars>>

NextNextExecution ==
    \/ UpdaterStart /\ UpdaterFrame
    \/ CronInstant /\ UpdaterFrame
    \/ UpdaterTick /\ UpdaterFrame
    \/ ClockAdvance /\ UpdaterFrame
    \/ UpdaterStop /\ UpdaterFrame

SpecNextExecution == InitNextExecution /\ [][NextNextExecution]_vars

\* the stats command on a database left by earlier runs
InitStats ==
    /\ dir = [q \in Paths |-> NoFile]
    /\ watch = FALSE
    /\ InitProcess
    /\ dryRun = FALSE
    /\ subcommand = "stats"
    /\ InitIdleExecutor
    /\ InitIdleParser
    /\ InitIdleUpdater
    /\ InitStatsQuery

NextStats ==
    CallGetWorkflowStats
        /\ UNCHANGED <<agentVars, actionExecutions, xAct, xWf, xExits, xResps, xRes, xPc,
                       rVars, sVars, wVars, cVars, pVars, uVars>>

SpecStats == InitStats /\ [][NextStats]_vars

\* the agent watching one cron workflow until the process ends: the file
\* is removed, or the shutdown signal arrives, while firings of the
\* workflow are in progress
InitCancel ==
    /\ dir = [q \in Paths |-> IF q = "p1.yaml" THEN FileOf(WfA5) ELSE NoFile]
    /\ watch = TRUE
    /\ InitRuntime
    /\ InitIdleExecutor

NextCancel ==
    \/ LoadWorkflows
    \/ Shutdown
    \/ ProcessExit
    \/ SupReceive("p1.yaml", {"remove"}, NoFile)
    \/ SupExit
    \/ \E t \in TaskIds : TriggerStart(t)
    \/ \E t \in TaskIds : CronStop(t)
    \/ \E t \in TaskIds : CronStopped(t)
    \/ \E t \in TaskIds : CronFire(t)
    \/ \E f \in FiringIds : CronRun(f)

\* a job goroutine that was started runs its chain to the end, and the
\* goroutine waiting on ctx.Done() runs, as long as the process lives
FairCancel ==
    /\ WF_vars(\E f \in FiringIds : CronRun(f))
    /\ WF_vars(\E t \in TaskIds : CronStop(t))
    /\ WF_vars(\E t \in TaskIds : CronStopped(t))

SpecCancel == InitCancel /\ [][NextCancel]_vars /\ FairCancel

\* the agent started with --watch=false
InitFixed ==
    /\ dir \in FixedDirs
    /\ watch = FALSE
    /\ InitRuntime
    /\ InitIdleExecutor

NextFixed ==
    \/ LoadWorkflows
    \/ Shutdown
    \/ \E t \in TaskIds : TriggerStart(t)
    \/ \E t \in TaskIds : CronStop(t)
    \/ \E t \in TaskIds : CronStopped(t)
    \/ \E t \in TaskIds : CronFire(t)
    \/ \E f \in FiringIds : CronRun(f)
    \/ \E t \in TaskIds, op \in FsOps : FsEvent(t, op)
    \/ \E f \in FiringIds : FileWatchRun(f)

SpecFixed == InitFixed /\ [][NextFixed]_vars

\* an executor called on its own
InitAction == InitAgentVars /\ InitExecutor /\ InitIdleRetry /\ InitIdleStore /\ InitIdleWatcher

NextAction ==
    \/ CallExecuteBashAction /\ UNCHANGED agentVars
    \/ CallExecuteHttpAction /\ UNCHANGED agentVars

SpecAction == InitAction /\ [][NextAction]_vars

\* one call of ExecuteWithRetry
InitRetryCall ==
    /\ InitAgentVars
    /\ xAct = BashAction("a1", "exit 0", NoRetry)
    /\ xWf = ""
    /\ xExits = NoExits
    /\ xResps = NoResps
    /\ xRes = NoResult
    /\ xPc = "idle"
    /\ actionExecutions = << >>
    /\ InitRetry
    /\ InitIdleStore
    /\ InitIdleWatcher

NextRetry ==
    \/ RetryAttempt /\ UNCHANGED <<agentVars, actionExecutions, xAct, xWf, xExits, xResps, xRes, xPc, sVars, wVars, cVars, qVars, pVars, uVars>>
    \/ RetryWake /\ UNCHANGED <<agentVars, actionExecutions, xAct, xWf, xExits, xResps, xRes, xPc, sVars, wVars, cVars, qVars, pVars, uVars>>
    \/ RetryScopeCancel /\ UNCHANGED <<agentVars, actionExecutions, xAct, xWf, xExits, xResps, xRes, xPc, sVars, wVars, cVars, qVars, pVars, uVars>>

SpecRetry == InitRetryCall /\ [][NextRetry]_vars

\* error texts and retry_on lists for the decision of shouldRetry
RetryTexts ==
    { <<"request", "TIMEOUT">>, <<"context", "deadline", "exceeded">>,
      <<"Connection", "refused">>, <<"dns", "failure">>,
      <<"unexpected", "status", "code", "5", "0", "3">>,
      <<"status", "5", "0", "3">>, <<"exit", "code", "2">> }

RetryOnTexts ==
    RetryOnLists \cup
    { << <<"network">> >>, << <<"Connection">> >>,
      << <<"status", ":", "4", "0", "4">> >>,
      << <<"status", ":", "4", "0", "4">>, <<"exit", "code">> >> }

\* one call of ExecuteWithRetry whose first invocation of fn fails and
\* whose later invocations succeed
InitShouldRetry ==
    /\ InitAgentVars
    /\ xAct = BashAction("a1", "exit 0", NoRetry)
    /\ xWf = ""
    /\ xExits = NoExits
    /\ xResps = NoResps
    /\ xRes = NoResult
    /\ xPc = "idle"
    /\ actionExecutions = << >>
    /\ \E n \in 2..MaxAttemptsBound, on \in RetryOnTexts :
          rCfg = BackoffConfig(n, on, "", "", 0)
    /\ \E e \in RetryTexts :
          rOuts = [k \in 1..EnvLen |-> IF k = 1 THEN e ELSE NoErr]
    /\ rAttempt = 1
    /\ rPc = "call"
    /\ rCtx = "live"
    /\ rCalls = 0
    /\ rDelays = <<>>
    /\ rErr = NoErr
    /\ InitIdleStore
    /\ InitIdleWatcher

SpecShouldRetry == InitShouldRetry /\ [][NextRetry]_vars

\* the history store under calls of its exported functions
InitStore ==
    /\ InitAgentVars
    /\ xAct = BashAction("a1", "exit 0", NoRetry)
    /\ xWf = ""
    /\ xExits = NoExits
    /\ xResps = NoResps
    /\ xRes = NoResult
    /\ xPc = "idle"
    /\ actionExecutions = << >>
    /\ InitIdleRetry
    /\ InitIdleWatcher
    /\ sDb \in BOOLEAN
    /\ sCall = NoCall

StoreFrame ==
    UNCHANGED <<dir, watch, agent, sup, nEvents, activeWorkflows, tasks, firings,
                triggerFires, workflowExecutions, registry, activeGauge,
                actionExecutions, xAct, xWf, xExits, xResps, xRes, xPc, rVars, wVars, cVars, qVars, pVars, uVars>>

NextStore ==
    \/ \E workflowName \in StoreNames : StoreStart(workflowName) /\ StoreFrame
    \/ \E id \in 1..MaxRows, status \in {"success", "failed"}, errorMsg \in StoreErrors :
            StoreComplete(id, status, errorMsg) /\ StoreFrame

SpecStore == InitStore /\ [][NextStore]_vars

\* one file watcher and the events it receives
InitWatcherCall ==
    /\ InitAgentVars
    /\ xAct = BashAction("a1", "exit 0", NoRetry)
    /\ xWf = ""
    /\ xExits = NoExits
    /\ xResps = NoResps
    /\ xRes = NoResult
    /\ xPc = "idle"
    /\ actionExecutions = << >>
    /\ InitIdleRetry
    /\ InitIdleStore
    /\ InitWatcher

WatcherFrame ==
    UNCHANGED <<agentVars, actionExecutions, xAct, xWf, xExits, xResps, xRes, xPc,
                rVars, sVars, cVars, qVars, pVars, uVars>>

NextWatcher ==
    \/ \E pathExists \in BOOLEAN : WatcherStart(pathExists) /\ WatcherFrame
    \/ \E mask \in FsMasks : WatcherEvent(mask) /\ WatcherFrame

SpecWatcher == InitWatcherCall /\ [][NextWatcher]_vars

\* either start function called on its own, as the package tests call them
InitTriggerCall ==
    /\ InitAgentVars
    /\ xAct = BashAction("a1", "exit 0", NoRetry)
    /\ xWf = ""
    /\ xExits = NoExits
    /\ xResps = NoResps
    /\ xRes = NoResult
    /\ xPc = "idle"
    /\ actionExecutions = << >>
    /\ InitIdleRetry
    /\ InitIdleStore
    /\ InitTriggerStart

NextTrigger ==
    \/ \E pathExists \in BOOLEAN : WatcherStart(pathExists) /\ WatcherFrame
    \/ \E mask \in FsMasks : WatcherEvent(mask) /\ WatcherFrame
    \/ CronStart /\ WatcherFrame
    \/ CronTick /\ WatcherFrame

SpecTrigger == InitTriggerCall /\ [][NextTrigger]_vars

(***************************************************************************)
(* Properties of the retry engine and the executors (SpecAction).          *)
(***************************************************************************)
\* a finished call of the bash executor that reached the retry engine
BashCallDone ==
    /\ xPc = "done"
    /\ xAct \in TestBashActions
    /\ xAct.Type = "bash"
    /\ xAct.Command # ""

\* the error text of the k-th shell run of the call
RunErr(k) == executeBashActionOnce(xAct, xExits[k])

\* the error text matches one of the retry_on conditions
MatchesRetryOn(err, retryOn) ==
    \E i \in 1..Len(retryOn) : condMatches(ToLower(err), retryOn[i])

Status503 == << <<"status", ":", "5", "0", "3">> >>

\* C8: an HTTP action with max_attempts = 3 and retry_on = [status:503]
\* whose endpoint answers 503, 503, 200 is sent three times, ends in
\* success, and counts success once and failed never.
C8_HttpRetriesOn503 ==
    ( /\ xPc = "done"
      /\ xAct \in TestHttpActions
      /\ xAct.Type = "http"
      /\ xAct.URL # "" /\ xAct.Method # "" /\ xAct.Timeout = ""
      /\ xAct.ExpectStatus \in {ExpectNil, ExpectOne("int", 200)}
      /\ xAct.ExpectBodyContains = <<>>
      /\ xAct.Retry = RetryConfig(3, Status503)
      /\ xWf = "A"
      /\ xResps[1] = Resp503 /\ xResps[2] = Resp503 /\ xResps[3] = Resp200ok )
    => ( /\ xRes.calls = 3
         /\ xRes.err = NoErr
         /\ Count(actionExecutions, <<"A", xAct.Name, "http", "success">>) = 1
         /\ Count(actionExecutions, <<"A", xAct.Name, "http", "failed">>) = 0 )

\* C9: ExecuteWithRetry invokes the inner run at least once and at most
\* max(1, max_attempts) times, exactly once when the policy is absent or
\* max_attempts <= 1, and never again after a run that succeeded.
C9_InvocationCount ==
    BashCallDone =>
        LET n == xAct.Retry.MaxAttempts
            most == IF xAct.Retry.present /\ n > 1 THEN n ELSE 1
        IN  /\ xRes.calls >= 1
            /\ xRes.calls <= most
            /\ (~xAct.Retry.present \/ n <= 1) => xRes.calls = 1
            /\ \A k \in 1..(xRes.calls - 1) : xExits[k] # 0
            /\ xRes.err = RunErr(xRes.calls)

\* two failed runs, then a success on the last attempt the policy allows
C9_Witness ==
    /\ BashCallDone
    /\ xAct.Retry.present
    /\ xAct.Retry.MaxAttempts = MaxAttemptsBound
    /\ xRes.calls = MaxAttemptsBound
    /\ xRes.err = NoErr
    /\ xExits[EnvLen] # 0

\* C10: a failed attempt that is not the last, under a non-empty retry_on
\* none of whose conditions matches the error, ends the call at once: no
\* sleep and no further run follow it, and its error is returned.  A bash
\* action "exit 2" with max_attempts = 3 and retry_on = [timeout] runs once
\* and its error names exit code 2.
C10_NonRetryableStops ==
    /\ ( /\ BashCallDone
         /\ xAct.Retry.present
         /\ Len(xAct.Retry.RetryOn) > 0 )
       => \A k \in 1..EnvLen :
            ( /\ k <= xRes.calls
              /\ k < xAct.Retry.MaxAttempts
              /\ RunErr(k) # NoErr
              /\ ~MatchesRetryOn(RunErr(k), xAct.Retry.RetryOn) )
            => ( /\ xRes.calls = k
                 /\ xRes.sleeps = k - 1
                 /\ xRes.err = RunErr(k) )
    /\ ( /\ BashCallDone
         /\ xAct.Name = "a1"
         /\ xAct.Command = "exit 2"
         /\ xAct.Retry = RetryConfig(3, << <<"timeout">> >>) )
       => ( /\ xRes.calls = 1
            /\ xRes.sleeps = 0
            /\ Contains(xRes.err, <<"exit", "code", "2">>) )

\* the "exit 2" action under retry_on = [timeout] has returned
C10_Witness ==
    /\ BashCallDone
    /\ xAct.Name = "a1"
    /\ xAct.Command = "exit 2"
    /\ xAct.Retry = RetryConfig(3, << <<"timeout">> >>)
    /\ xRes.calls = 1
    /\ xRes.err # NoErr

(***************************************************************************)
(* Properties of one execution (SpecFixed).                                *)
(***************************************************************************)
DoneFirings == {f \in FiringIds : firings[f].pc = "done"}

DoneCronFirings == {f \in DoneFirings : firings[f].kind = "cron"}

\* the history rows opened by firing f
RowsOf(f) == {r \in 1..Len(rows) : rows[r].firing = f}

\* the actions of the log that failed
FailedAt(log) == {i \in 1..Len(log) : log[i].err # NoErr}

\* the least element of a non-empty set of indices
Least(S) == CHOOSE i \in S : \A j \in S : i <= j

\* C4: every trigger firing, cron or filewatch, opens exactly one
\* ExecutionRecord, and exactly one completion write sets its terminal
\* status when the chain has finished.  (A cron firing whose insert the
\* store refused is left aside.)
C4_OneRecordPerFiring ==
    \A f \in FiringIds :
        (firings[f].kind = "filewatch" \/ firings[f].dbOk) =>
            /\ Cardinality(RowsOf(f)) = 1
            /\ \A r \in RowsOf(f) :
                 /\ rows[r].completes = (IF f \in DoneFirings THEN 1 ELSE 0)
                 /\ f \in DoneFirings => rows[r].status \in {"success", "failed"}

\* C5: the actions of one execution are dispatched one at a time in the
\* declared order, a failure does not stop the chain, and every bash and
\* HTTP action is executed in every firing, cron and filewatch alike.
C5_EveryActionRuns ==
    \A f \in DoneFirings :
        LET wf == tasks[firings[f].task].wf
            log == firings[f].log
        IN  /\ Len(log) = Len(wf.Actions)
            /\ \A k \in 1..Len(log) :
                 /\ log[k].idx = k
                 /\ log[k].name = wf.Actions[k].Name
                 /\ log[k].type \in {"bash", "http"} => log[k].ran

\* C6: when several actions of one execution fail, the error text stored
\* with the execution (history row, registry last_error) is the message of
\* the first failing action.
C6_FirstErrorStored ==
    \A f \in DoneCronFirings :
        LET log == firings[f].log IN
        FailedAt(log) # {} =>
            /\ firings[f].err = log[Least(FailedAt(log))].err
            /\ firings[f].execID > 0 =>
                 rows[firings[f].execID].error = log[Least(FailedAt(log))].err

\* C7: the aggregate status of an execution is failed iff at least one of
\* its actions failed; it starts as success and a later successful action
\* never resets failed to success.
C7_AggregateStatus ==
    \A f \in DoneCronFirings :
        LET log == firings[f].log IN
        /\ firings[f].status = (IF FailedAt(log) # {} THEN "failed" ELSE "success")
        /\ \A k \in 1..Len(log) :
             log[k].status = (IF \E i \in FailedAt(log) : i <= k
                              THEN "failed" ELSE "success")
        /\ firings[f].execID > 0 =>
             rows[firings[f].execID].status = firings[f].status

\* a chain in which an action failed and a later action succeeded
C7_Witness ==
    \E f \in DoneCronFirings :
        LET log == firings[f].log IN
        /\ \E i \in FailedAt(log) :
             \E j \in (i + 1)..Len(log) : log[j].ran /\ log[j].err = NoErr
        /\ firings[f].status = "failed"
        /\ firings[f].execID > 0

(***************************************************************************)
(* Properties of the supervisor and the triggers (Spec).                   *)
(***************************************************************************)
\* this step starts a firing of task t
Fires(t) ==
    /\ Len(firings') = Len(firings) + 1
    /\ firings'[Len(firings')].task = t

\* a task that has ended: its trigger can fire no more
Terminated(t) == tasks[t].st \in {"stopped", "failed"}

\* C1: once the cancellation scope of a per-workflow task is cancelled, the
\* trigger of that task records no further trigger-fire metric and opens no
\* further history record.
C1_NoFireAfterCancel ==
    [][\A t \in TaskIds :
         (tasks[t].ctx = "cancelled" /\ Fires(t)) =>
             /\ triggerFires' = triggerFires
             /\ rows' = rows]_vars

\* C2: for one cron workflow at most one firing is active at any time.
C2_OneActiveFiring ==
    \A t \in TaskIds :
        tasks[t].wf.Trigger.Type = "cron" => Cardinality(ActiveFirings(t)) <= 1

\* C3: on a write event the replacement task is started only after the
\* cancelled task has terminated, and after the replacement was started
\* the cancelled task fires no more.
C3_ReplaceAfterTermination ==
    [][/\ (sup.pc = "writeSleep" /\ Len(tasks') > Len(tasks)) =>
             \A t \in TaskIds :
                 (tasks[t].path = sup.path /\ tasks[t].ctx = "cancelled")
                     => Terminated(t)
       /\ \A t \in TaskIds :
             ( /\ Fires(t)
               /\ tasks[t].ctx = "cancelled"
               /\ \E u \in TaskIds : u > t /\ tasks[u].path = tasks[t].path )
             => FALSE]_vars

(***************************************************************************)
(* Properties of the retry engine step by step (SpecRetry).                *)
(***************************************************************************)
\* initial_delay * multiplier^(k-1) for the delay after attempt k
RawBackoff(k) == initialDelayOf(rCfg) * Pow(multiplierOf(rCfg), k - 1)

\* min(initial_delay * multiplier^(k-1), max_delay)
CappedBackoff(k) ==
    IF RawBackoff(k) > maxDelayOf(rCfg) THEN maxDelayOf(rCfg) ELSE RawBackoff(k)

\* C11 as stated: the delay after attempt k is at least
\* initial_delay * multiplier^(k-1) * 0.9 and at most max_delay * 1.1.
C11_DelayBoundsAsStated ==
    \A k \in 1..Len(rDelays) :
        /\ 10 * rDelays[k] >= 9 * RawBackoff(k)
        /\ 10 * rDelays[k] <= 11 * maxDelayOf(rCfg)

\* C11 amended: with d = min(initial_delay * multiplier^(k-1), max_delay),
\* the delay after attempt k is at least initial_delay and at least 0.9 * d,
\* and it is at most 1.1 * d unless it is initial_delay itself.
C11_DelayBounds ==
    \A k \in 1..Len(rDelays) :
        /\ rDelays[k] >= initialDelayOf(rCfg)
        /\ 10 * rDelays[k] >= 9 * CappedBackoff(k)
        /\ \/ rDelays[k] = initialDelayOf(rCfg)
           \/ 10 * rDelays[k] <= 11 * CappedBackoff(k)

\* a delay that was capped at max_delay and jittered above initial_delay
C11_Witness ==
    \E k \in 1..Len(rDelays) :
        /\ RawBackoff(k) > maxDelayOf(rCfg)
        /\ rDelays[k] > initialDelayOf(rCfg)
        /\ rDelays[k] > maxDelayOf(rCfg)

\* the outcome of a call that its scope's cancellation ended
Canceled == <<"context", "canceled">>

\* C12: a backoff sleep ends as soon as the enclosing scope is cancelled,
\* and ExecuteWithRetry then returns a cancellation outcome without
\* invoking the inner run again.
C12_SleepCancellable ==
    [][(rPc = "sleep" /\ rCtx = "cancelled") =>
          /\ rPc' = "done"
          /\ rErr' = Canceled
          /\ rCalls' = rCalls]_vars

(***************************************************************************)
(* Properties of the history store (SpecFixed, SpecStore).                 *)
(***************************************************************************)
\* C13: a workflow-execution row is running exactly when its completed_at
\* and duration_ms are null, and a running row changes to success or
\* failed exactly once, completed_at and duration_ms being set by that
\* same write.
C13_RunningUntilCompletedOnce ==
    \A id \in 1..Len(rows) :
        /\ rows[id].status = "running" <=> ~rows[id].completed
        /\ rows[id].completed => rows[id].status \in {"success", "failed"}
        /\ rows[id].completes <= 1

\* a row that a cron firing opened and closed as failed
C13_Witness ==
    \E f \in FiringIds :
        /\ firings[f].pc = "done"
        /\ firings[f].execID > 0
        /\ rows[firings[f].execID].status = "failed"
        /\ rows[firings[f].execID].completed
        /\ \E g \in FiringIds :
             firings[g].pc = "run" /\ firings[g].execID > 0
                /\ rows[firings[g].execID].status = "running"

\* C14: a second complete on an id whose row is already terminal is an
\* error: the call returns an error and leaves the row as it was.
C14_SecondCompleteRejected ==
    [][\A id \in 1..Len(rows) :
         ( /\ rows[id].completed
           /\ sCall'.n = sCall.n + 1
           /\ sCall'.op = "complete"
           /\ sCall'.id = id )
         => ( /\ rows'[id] = rows[id]
              /\ sCall'.ret # NoErr )]_vars

(***************************************************************************)
(* Properties of shutdown, directory events and startup (Spec).            *)
(***************************************************************************)
\* C15: after the shutdown signal has cancelled the root scope no workflow
\* opens a new ExecutionRecord, and every record is closed as success or
\* failed or stays running.
C15_NoRecordAfterShutdown ==
    [][agent = "draining" =>
          /\ Len(rows') = Len(rows)
          /\ \A id \in 1..Len(rows') :
               rows'[id].status \in {"running", "success", "failed"}]_vars

(***************************************************************************)
(* Properties of the file watcher's event matching (SpecWatcher).          *)
(***************************************************************************)
\* the operations an Event.Op value carries
OpNames(mask) == {n \in FsNames : (mask \div opBit(n)) % 2 = 1}

\* the operations an events list names
Listed(events) == {events[i] : i \in 1..Len(events)}

\* C16: a filewatch trigger starts an execution for an event iff the
\* event's operation bitmask holds at least one operation named in the
\* workflow's events list.
C16_FiresIffListed ==
    \A k \in 1..Len(wSeen) :
        wSeen[k].fired <=> (OpNames(wSeen[k].op) \cap Listed(wTrig.Events) # {})

\* a combined event that fired through the second entry of the list, after
\* an event outside the list that started nothing
C16_Witness ==
    /\ Len(wTrig.Events) = 2
    /\ Len(wSeen) = 2
    /\ ~wSeen[1].fired
    /\ wSeen[2].fired
    /\ Cardinality(OpNames(wSeen[2].op)) = 2
    /\ wTrig.Events[1] \notin OpNames(wSeen[2].op)

(***************************************************************************)
(* Properties of the supervisor (SpecSupervisor).                          *)
(***************************************************************************)
\* this step is the supervisor taking a remove event of path q
RemoveEventOf(q) ==
    /\ nEvents' = nEvents + 1
    /\ dir[q].present
    /\ ~dir'[q].present

\* C17: a remove event of a workflow file cancels the task registered for
\* the path, removes its handle and starts no replacement, and it leaves
\* the tasks and handles of every other path unchanged.
C17_RemoveFrame ==
    [][\A q \in Paths :
         RemoveEventOf(q) =>
            /\ activeWorkflows'[q] = 0
            /\ activeWorkflows[q] # 0 =>
                 tasks'[activeWorkflows[q]] =
                    [tasks[activeWorkflows[q]] EXCEPT !.ctx = "cancelled"]
            /\ Len(tasks') = Len(tasks)
            /\ sup' = SupIdle
            /\ \A t \in TaskIds : t # activeWorkflows[q] => tasks'[t] = tasks[t]
            /\ \A o \in Paths \ {q} : activeWorkflows'[o] = activeWorkflows[o]]_vars

\* a removed file whose task was cancelled while the task of the other
\* path lives on under its handle
C17_Witness ==
    /\ agent = "running"
    /\ nEvents = 1
    /\ \E q \in Paths :
         /\ ~dir[q].present
         /\ activeWorkflows[q] = 0
         /\ \E t \in TaskIds : tasks[t].path = q /\ tasks[t].ctx = "cancelled"
         /\ \E o \in Paths \ {q} :
              /\ activeWorkflows[o] # 0
              /\ tasks[activeWorkflows[o]].ctx = "live"

\* the task started for the file of path q, if any
LoadedTask(q) == tasks[activeWorkflows[q]]

\* C18: when some documents of the directory fail to parse or to start at
\* startup, loadWorkflows still starts a task for every other accepted
\* document, and the agent keeps running: a task whose trigger fails to
\* start ends alone.
C18_LoadSkipsFailures ==
    /\ (agent # "init" /\ nEvents = 0) =>
          \A q \in Paths :
             IF dir[q].present /\ dir[q].doc.valid
             THEN /\ activeWorkflows[q] # 0
                  /\ LoadedTask(q).path = q
                  /\ LoadedTask(q).wf = dir[q].doc
                  /\ (agent = "running" /\ LoadedTask(q).st # "failed") =>
                        LoadedTask(q).ctx = "live"
             ELSE activeWorkflows[q] = 0
    /\ (\E t \in TaskIds : tasks[t].st = "failed") => agent # "init"

\* one document failed to parse, or the trigger of one failed to start,
\* and the task of the other document runs in the running agent
C18_Witness ==
    /\ agent = "running"
    /\ nEvents = 0
    /\ \E q \in Paths :
         /\ dir[q].present
         /\ \/ ~dir[q].doc.valid
            \/ activeWorkflows[q] # 0 /\ LoadedTask(q).st = "failed"
         /\ \E o \in Paths \ {q} :
              /\ dir[o].present
              /\ activeWorkflows[o] # 0
              /\ LoadedTask(o).wf = dir[o].doc
              /\ LoadedTask(o).st \in {"running", "watching"}
              /\ LoadedTask(o).ctx = "live"

\* a per-workflow task that has not been cancelled and has not ended
LiveTask(t) ==
    /\ tasks[t].ctx = "live"
    /\ tasks[t].st \in {"spawned", "running", "watching"}

\* C19: workflow names are unique within the engine: no two live
\* per-workflow tasks have the same workflow name, even when two files of
\* the directory declare the same name.
C19_UniqueNames ==
    \A t, u \in TaskIds :
        (t # u /\ LiveTask(t) /\ LiveTask(u)) => tasks[t].wf.Name # tasks[u].wf.Name

(***************************************************************************)
(* Properties of the HTTP executor on a received response (SpecAction).    *)
(***************************************************************************)
\* ExecuteHttpAction has returned after it received a response
HttpResponseDone ==
    /\ xPc = "done"
    /\ xAct \in TestHttpActions
    /\ xRes.calls = 1
    /\ xResps[1].kind = "resp"

\* expect_status is absent or contains the status: its entries are numbers,
\* a number given as floating point counts as the integer it denotes, and
\* an entry that is no number fails the validation
StatusExpected(es, status) ==
    \/ es.kind = "nil"
    \/ /\ \A i \in 1..Len(es.items) : es.items[i].t \in {"int", "float"}
       /\ \E i \in 1..Len(es.items) : es.items[i].v = status

\* expect_body_contains is absent or is a substring of the body
BodyExpected(sub, respBody) == sub = <<>> \/ Contains(respBody, sub)

\* the error is one of the two the status check returns
IsStatusFailure(err) ==
    \/ Contains(err, <<"unexpected", "status", "code">>)
    \/ Contains(err, <<"invalid", "type", "in", "expect_status", "list">>)

\* C20: ExecuteHttpAction on a received response succeeds if and only if
\* expect_status is absent or contains the response status, and
\* expect_body_contains is absent or is a substring of the body; the status
\* check comes first, so a response failing both reports the status failure.
C20_SuccessIffExpected ==
    HttpResponseDone =>
        /\ xRes.err = NoErr <=>
              /\ StatusExpected(xAct.ExpectStatus, xResps[1].status)
              /\ BodyExpected(xAct.ExpectBodyContains, xResps[1].body)
        /\ (/\ ~StatusExpected(xAct.ExpectStatus, xResps[1].status)
            /\ ~BodyExpected(xAct.ExpectBodyContains, xResps[1].body))
              => IsStatusFailure(xRes.err)

\* expect_status holds a floating-point number, alone or as a list entry
HasFloatEntry(es) == \E i \in 1..Len(es.items) : es.items[i].t = "float"

\* expect_status holds an entry that is no number
HasNonNumericEntry(es) ==
    \E i \in 1..Len(es.items) : es.items[i].t \notin {"int", "float"}

\* C21: an expect_status given as a floating-point number, alone or as a
\* list entry, is coerced to the integer status code and matched like an
\* integer; only a non-numeric list entry makes the attempt fail validation.
C21_FloatCoerced ==
    (HttpResponseDone /\ HasFloatEntry(xAct.ExpectStatus)
        /\ ~HasNonNumericEntry(xAct.ExpectStatus)) =>
        (IsStatusFailure(xRes.err) <=>
            \A i \in 1..Len(xAct.ExpectStatus.items) :
                xAct.ExpectStatus.items[i].v # xResps[1].status)

\* C22: every HTTP action attempt terminates even if the server never
\* answers: with no timeout configured a bounded default deadline applies,
\* so the executor is never left waiting for a response without a deadline.
C22_HttpAttemptBounded ==
    (xAct \in TestHttpActions /\ xPc # "ready") =>
        /\ xPc = "done"
        /\ ~xRes.blocked

(***************************************************************************)
(* Properties of the --dry-run flag (SpecDryRun).                          *)
(***************************************************************************)
\* C23: with --dry-run neither agent nor run starts any trigger or
\* per-workflow task, whatever the directory holds: no task, no firing, no
\* execution record and no cancel handle exists, and the command returns.
C23_DryRunStartsNothing ==
    dryRun =>
        /\ tasks = <<>>
        /\ firings = <<>>
        /\ rows = <<>>
        /\ \A q \in Paths : activeWorkflows[q] = 0
        /\ registry = << >>
        /\ triggerFires = << >>
        /\ agent \in {"init", "exited"}

\* a dry run that has returned on a directory whose documents are accepted
C23_Witness ==
    /\ dryRun
    /\ agent = "exited"
    /\ dir["p1.yaml"].present
    /\ dir["p1.yaml"].doc.valid
    /\ subcommand = "agent" => (dir["p2.yaml"].present /\ dir["p2.yaml"].doc.valid)

(***************************************************************************)
(* Properties of the custom action in a chain (SpecFixed).                 *)
(***************************************************************************)
\* the aggregate status before action k of the chain of firing f
StatusBefore(f, k) ==
    IF k > 1 THEN firings[f].log[k - 1].status
    ELSE IF firings[f].kind = "cron" THEN "success" ELSE "none"

\* C24: a custom action in a chain runs no executor, does not set the
\* aggregate status to failed, and is not counted as an action execution,
\* successful or failed.
C24_CustomActionSkipped ==
    /\ \A f \in DoneFirings :
         \A k \in 1..Len(firings[f].log) :
            firings[f].log[k].type = "custom" =>
                /\ ~firings[f].log[k].ran
                /\ firings[f].log[k].err = NoErr
                /\ firings[f].log[k].status = StatusBefore(f, k)
    /\ \A labels \in DOMAIN actionExecutions : labels[3] # "custom"

\* a finished cron chain that began with a custom action and counted the
\* executions of its other actions
C24_Witness ==
    \E f \in DoneCronFirings :
        /\ firings[f].log[1].type = "custom"
        /\ firings[f].status = "success"
        /\ \E labels \in DOMAIN actionExecutions :
             labels[1] = tasks[firings[f].task].wf.Name /\ labels[4] = "success"

(***************************************************************************)
(* Properties of the stats query (SpecStats).                              *)
(***************************************************************************)
\* the table without its running rows
TerminalRows(rs) == SelectSeq(rs, LAMBDA r : r.status # "running")

\* C25: query_stats computes total, success count, failed count, success
\* rate and average duration over terminal rows only: a row that is still
\* running inside the window changes none of these numbers.
C25_StatsOverTerminalRows ==
    qRes.done => qRes.stats = GetWorkflowStats(TerminalRows(qRows), qName, qSince)

(***************************************************************************)
(* Properties of the start functions of the triggers (SpecTrigger).        *)
(***************************************************************************)
\* the setup of the trigger fails in the start function that was called:
\* cron expression rejected; filewatch trigger of the wrong type, empty
\* path, empty events list or non-existent path
SetupFails ==
    IF wCall.fn = "StartCronTrigger" THEN ~validSchedule(wTrig.Schedule)
    ELSE \/ wTrig.Type # "filewatch"
         \/ wTrig.Path = ""
         \/ wTrig.Events = <<>>
         \/ ~wCall.pathExists

\* C26: when trigger setup fails the start function returns an error, no
\* scheduler or watcher is left running, and the workflow never fires; a
\* setup that does not fail leaves the scheduler or the watcher running.
C26_FailedSetupStartsNothing ==
    wCall.fn # "none" =>
        IF SetupFails
        THEN wSt = "failed" /\ wSeen = <<>>
        ELSE wSt \in {"watching", "scheduled"}

\* a start function has returned an error for a watched path that does not
\* exist, the rest of the trigger being in order
C26_Witness ==
    /\ wCall.fn = "StartFileWatchTrigger"
    /\ ~wCall.pathExists
    /\ wTrig.Type = "filewatch"
    /\ wTrig.Path # ""
    /\ wTrig.Events # <<>>
    /\ wSt = "failed"

(***************************************************************************)
(* Properties of the bash executor (SpecAction).                           *)
(***************************************************************************)
\* ExecuteBashAction has returned, whatever action it was given
BashReturned ==
    /\ xPc = "done"
    /\ xAct \in TestBashActions

\* the exit status of the last run of the command, when there was a run
LastExit == xExits[xRes.calls]

\* C27: ExecuteBashAction succeeds if and only if the action tag is bash,
\* the command is non-empty and the command exits with status zero; with a
\* wrong tag or an empty command it fails without running any command, and
\* on non-zero exit the error text contains the action name and the exit
\* code.
C27_BashSuccessIffExitZero ==
    BashReturned =>
        /\ xRes.err = NoErr <=>
              /\ xAct.Type = "bash"
              /\ xAct.Command # ""
              /\ xRes.calls >= 1
              /\ LastExit = 0
        /\ (xAct.Type # "bash" \/ xAct.Command = "") =>
              xRes.calls = 0 /\ xRes.err # NoErr
        /\ (xRes.calls >= 1 /\ LastExit > 0) =>
              /\ Contains(xRes.err, <<"action", xAct.Name>>)
              /\ Contains(xRes.err, <<"exit", "code">> \o Digits(LastExit))

\* a command that ran once and left with exit status 2
C27_Witness ==
    /\ BashReturned
    /\ xAct.Type = "bash"
    /\ xAct.Command = "exit 2"
    /\ xRes.calls = 1
    /\ Contains(xRes.err, <<"exit", "code", "2">>)

(***************************************************************************)
(* Properties of validateWorkflow (SpecValidate).                          *)
(***************************************************************************)
\* an HTTP action of the document carries shell or custom-function fields
HttpWithForeignFields(a) ==
    /\ a.Type = "http"
    /\ (a.Command # "" \/ a.FunctionName # "" \/ a.Arguments)

\* the document has every field its trigger and its actions require
RequiredFieldsPresent(wf) ==
    /\ wf.Name # ""
    /\ Len(wf.Actions) > 0
    /\ \/ wf.Trigger.Type = "cron" /\ wf.Trigger.Schedule # ""
       \/ /\ wf.Trigger.Type = "filewatch"
          /\ wf.Trigger.Path # ""
          /\ Len(wf.Trigger.Events) > 0
          /\ \A k \in 1..Len(wf.Trigger.Events) : wf.Trigger.Events[k] \in FsNames
    /\ \A k \in 1..Len(wf.Actions) :
         LET a == wf.Actions[k] IN
         /\ a.Name # ""
         /\ \/ a.Type = "bash" /\ a.Command # ""
            \/ a.Type = "http" /\ a.URL # "" /\ a.Method # ""
            \/ a.Type = "custom" /\ a.FunctionName # ""

\* the mixes of foreign fields other than the one of an HTTP action
OtherMix(wf) ==
    \/ wf.Trigger.Type = "cron" /\ (wf.Trigger.Path # "" \/ Len(wf.Trigger.Events) > 0)
    \/ wf.Trigger.Type = "filewatch" /\ wf.Trigger.Schedule # ""
    \/ \E k \in 1..Len(wf.Actions) :
         /\ wf.Actions[k].Type \in {"bash", "custom"}
         /\ hasHttpFields(wf.Actions[k])

WriteEventOf(q) ==
    /\ nEvents' = nEvents + 1
    /\ sup'.pc = "writeSleep"
    /\ sup'.path = q

\* this step is the reload of path q after the settling delay, the
\* document of the file being one the parser rejects
FailedReloadOf(q) ==
    /\ sup.pc = "writeSleep"
    /\ sup.path = q
    /\ sup'.pc # "writeSleep"
    /\ ~dir[q].doc.valid

\* C29: if the document fails to parse on a write event, the old task for
\* that path stays cancelled, no task is started, and the path has no entry
\* in the handle map afterwards.
C29_FailedReloadLeavesSlotEmpty ==
    [][\A q \in Paths :
         /\ (WriteEventOf(q) /\ activeWorkflows[q] # 0) =>
               /\ tasks'[activeWorkflows[q]].ctx = "cancelled"
               /\ activeWorkflows'[q] = 0
         /\ FailedReloadOf(q) =>
               /\ tasks' = tasks
               /\ activeWorkflows'[q] = 0
               /\ activeWorkflows' = activeWorkflows]_vars

\* after a write event that left a rejected document: the old task is
\* cancelled, the handle map has no entry for the path, no task was added
C29_Witness ==
    /\ agent = "running"
    /\ nEvents = 1
    /\ sup = SupIdle
    /\ \E q \in Paths :
         /\ dir[q].present
         /\ ~dir[q].doc.valid
         /\ activeWorkflows[q] = 0
         /\ \E t \in TaskIds : tasks[t].path = q /\ tasks[t].ctx = "cancelled"
         /\ \A t \in TaskIds : tasks[t].wf.valid

(***************************************************************************)
(* Properties of a cron firing that is in progress when its workflow is    *)
(* cancelled (SpecCancel).                                                 *)
(***************************************************************************)
\* firing f of a cron workflow is in progress and the scope of its
\* workflow is cancelled
InProgressCancelled(f) ==
    /\ f \in FiringIds
    /\ firings[f].kind = "cron"
    /\ firings[f].pc = "run"
    /\ tasks[firings[f].task].ctx = "cancelled"

\* the job of firing f has returned and its record, if one was opened, is
\* closed with a terminal status
FiringClosed(f) ==
    /\ f \in FiringIds
    /\ firings[f].pc = "done"
    /\ firings[f].execID > 0 =>
          /\ rows[firings[f].execID].completed
          /\ rows[firings[f].execID].status \in {"success", "failed"}

\* this step is the end of the job of firing f
FiringEnds(f) ==
    /\ f \in FiringIds
    /\ firings[f].pc = "run"
    /\ firings'[f].pc = "done"

\* the step that ends a firing closes its record and updates the workflow
\* metric and the run counter of the registry
ClosingUpdates ==
    \A f \in 1..MaxFirings :
        FiringEnds(f) =>
            LET name == tasks[firings[f].task].wf.Name IN
            /\ FiringClosed(f)'
            /\ workflowExecutions' =
                   Inc(workflowExecutions, <<name, firings'[f].status>>)
            /\ name \in DOMAIN registry
            /\ registry'[name].TotalRuns = registry[name].TotalRuns + 1

\* the step that marks the workflow of a task stopped is taken when every
\* firing of the task is closed
StoppedAfterClosing ==
    \A t \in TaskIds :
        (tasks[t].st # "stopped" /\ tasks'[t].st = "stopped") =>
            /\ \A f \in FiringIds : firings[f].task = t => FiringClosed(f)
            /\ tasks[t].wf.Trigger.Type = "cron" =>
                  registry'[tasks[t].wf.Name].Status = "stopped"

EndsWithoutRecord(f) ==
    /\ FiringEnds(f)
    /\ firings[f].kind = "cron"
    /\ firings[f].execID = 0

\* the log of firing f in the next state has every action of wf, in order,
\* the bash and HTTP actions with an executor run
DispatchedAll(f, wf) ==
    /\ Len(firings'[f].log) = Len(wf.Actions)
    /\ \A k \in 1..Len(wf.Actions) :
          /\ firings'[f].log[k].name = wf.Actions[k].Name
          /\ wf.Actions[k].Type \in {"bash", "http"} => firings'[f].log[k].ran

\* C31: if opening the ExecutionRecord fails, the firing still runs every
\* action and records the workflow metrics and the registry counters,
\* attempts no completion write for the missing id, and later firings of the
\* same and of other workflows are unaffected.
C31_RunsWithoutRecord ==
    [][\A f \in 1..MaxFirings :
         /\ EndsWithoutRecord(f) =>
               LET wf == tasks[firings[f].task].wf IN
               /\ DispatchedAll(f, wf)
               /\ workflowExecutions' =
                      Inc(workflowExecutions, <<wf.Name, firings'[f].status>>)
               /\ registry'[wf.Name].TotalRuns = registry[wf.Name].TotalRuns + 1
               /\ rows' = rows
         /\ (FiringEnds(f) /\ firings[f].kind = "cron" /\ firings[f].execID > 0) =>
               /\ DispatchedAll(f, tasks[firings[f].task].wf)
               /\ rows'[firings[f].execID].completed
               /\ \A id \in 1..Len(rows) :
                     id # firings[f].execID => rows'[id] = rows[id]]_vars

\* a firing without a row has run its chain, and a later firing of the same
\* workflow has opened its row and closed it
C31_Witness ==
    \E f, g \in FiringIds :
        /\ f < g
        /\ firings[f].kind = "cron" /\ firings[g].kind = "cron"
        /\ firings[f].task = firings[g].task
        /\ firings[f].execID = 0
        /\ firings[f].pc = "done"
        /\ Len(firings[f].log) = Len(tasks[firings[f].task].wf.Actions)
        /\ firings[g].execID > 0
        /\ firings[g].pc = "done"
        /\ rows[firings[g].execID].completed

(***************************************************************************)
(* Properties of the event loop of the file watcher (SpecWatcher).         *)
(***************************************************************************)
\* the event carries an operation the events list names
IsListed(e) == OpNames(e.op) \cap Listed(wTrig.Events) # {}

HasFired(e) == e.fired

\* the operations of the events of seen that are listed, in arrival order
MatchingOps(seen) ==
    LET m == SelectSeq(seen, IsListed) IN [k \in 1..Len(m) |-> m[k].op]

\* the operations of the events of seen an execution was started for
ExecutedOps(seen) ==
    LET x == SelectSeq(seen, HasFired) IN [k \in 1..Len(x) |-> x[k].op]

\* C32: each matching filesystem event produces exactly one execution, in
\* arrival order: N consecutive matching events yield N executions, none
\* merged and none dropped while the watch is open.
C32_OneExecutionPerEvent ==
    [][(wSt = "watching" /\ wSeen' # wSeen) =>
          /\ Len(wSeen') = Len(wSeen) + 1
          /\ SubSeq(wSeen', 1, Len(wSeen)) = wSeen
          /\ Len(ExecutedOps(wSeen')) = Len(MatchingOps(wSeen'))
          /\ ExecutedOps(wSeen') = MatchingOps(wSeen')
          /\ IsListed(wSeen'[Len(wSeen')]) =>
                Len(ExecutedOps(wSeen')) = Len(ExecutedOps(wSeen)) + 1]_vars

\* two consecutive events with the same operation, an execution for each
C32_Witness ==
    /\ wSt = "watching"
    /\ Len(wSeen) = MaxWatchEvents
    /\ \A k \in 1..Len(wSeen) : wSeen[k].fired /\ wSeen[k].op = wSeen[1].op
    /\ Len(ExecutedOps(wSeen)) = MaxWatchEvents

(***************************************************************************)
(* Properties of the retry decision (SpecShouldRetry).                     *)
(***************************************************************************)
\* text holds sub, letter case apart
HoldsText(text, sub) == Contains(ToLower(text), ToLower(sub))

\* the predicate of retry_on matches the error text
PredicateMatches(text, predicate) ==
    LET p == ToLower(predicate) IN
    IF p = <<"timeout">> THEN
        HoldsText(text, <<"timeout">>) \/ HoldsText(text, <<"deadline", "exceeded">>)
    ELSE IF p = <<"network">> THEN
        \/ HoldsText(text, <<"network">>)
        \/ HoldsText(text, <<"connection">>)
        \/ HoldsText(text, <<"dns">>)
    ELSE IF p = <<"error">> THEN TRUE
    ELSE IF Len(p) >= 2 /\ p[1] = "status" /\ p[2] = ":" THEN
        LET n == SubSeq(p, 3, Len(p)) IN
        \/ HoldsText(text, <<"status", "code">> \o n)
        \/ HoldsText(text, <<"status">> \o n)
    ELSE HoldsText(text, p)

\* this step is the decision on the failure of the first invocation, which
\* is not the last one allowed
DecidesRetry ==
    /\ rPc = "call"
    /\ rAttempt = 1
    /\ rPc' # "call"
    /\ rOuts[1] # NoErr
    /\ rCfg.present
    /\ rCfg.MaxAttempts > 1

\* C33: shouldRetry is true for a failure if and only if retry_on is empty
\* or some predicate matches the error text case-insensitively: timeout
\* matches "timeout" or "deadline exceeded"; network matches "network",
\* "connection" or "dns"; status:N matches "status code N" or "status N";
\* error matches any failure; any other literal matches as a substring.
C33_ShouldRetryIffMatch ==
    [][DecidesRetry =>
          (rPc' = "sleep" <=>
              \/ Len(rCfg.RetryOn) = 0
              \/ \E i \in 1..Len(rCfg.RetryOn) :
                    PredicateMatches(rOuts[1], rCfg.RetryOn[i]))]_vars

\* a literal written with a capital matched the text of a refused
\* connection and the call went on to its second invocation
C33_Witness ==
    /\ rCfg.RetryOn = << <<"Connection">> >>
    /\ rOuts[1] = <<"Connection", "refused">>
    /\ rCalls = 2
    /\ rPc = "done"
    /\ rErr = NoErr

(***************************************************************************)
(* Properties of the registry's next_execution (SpecNextExecution).        *)
(***************************************************************************)
\* C34: for a running cron workflow the registry's next_execution is
\* refreshed immediately after each firing and at least every 30 s, so
\* after a firing has completed it does not keep showing the instant that
\* has just fired.
C34_NextExecutionFresh ==
    (uPc = "running" /\ uDone > 0) =>
        /\ uReg > uLast
        /\ uReg = uEntry

(***************************************************************************)
(* Properties of the registry and the handle map under hot-reload          *)
(* (SpecSupervisor).                                                       *)
(***************************************************************************)
\* task t runs a cron scheduler and its scope is live
RunningCron(t) ==
    /\ tasks[t].wf.Trigger.Type = "cron"
    /\ tasks[t].st = "running"
    /\ tasks[t].ctx = "live"

\* C35: after a hot-reload that keeps the workflow name, the registry entry
\* of the live replacement task stays active: the old task's
\* UnregisterWorkflow never marks the entry of the already registered
\* replacement as stopped.
C35_ReplacementStaysActive ==
    \A t \in TaskIds :
        RunningCron(t) =>
            /\ tasks[t].wf.Name \in DOMAIN registry
            /\ registry[tasks[t].wf.Name].Status = "active"

\* task t has been started and has neither failed nor been cancelled
LiveStarted(t) ==
    /\ tasks[t].ctx = "live"
    /\ tasks[t].st \in {"spawned", "running", "watching"}

\* C36: the cancel handle of every live per-workflow task is stored in the
\* handle map under its file path: a create event (or any second start) for
\* a path that already has a live task never overwrites the handle of a task
\* that is still running, so every running task can be cancelled by a later
\* write or remove event.
C36_LiveTaskHasHandle ==
    \A t \in TaskIds :
        LiveStarted(t) => activeWorkflows[tasks[t].path] = t

\* the tasks whose trigger is running
TriggerRunning == {t \in TaskIds : tasks[t].st \in {"running", "watching"}
                                    /\ tasks[t].ctx = "live"}

\* C37: the active_workflows gauge equals the number of per-workflow tasks
\* whose trigger is running, after startup (a workflow whose trigger failed
\* to start is not counted) and after every create, write and remove event.
C37_GaugeCountsRunning ==
    (/\ agent = "running"
     /\ sup.pc \in {"select", "off"}
     /\ \A t \in TaskIds : tasks[t].st # "spawned") =>
        activeGauge = Cardinality(TriggerRunning)

\* C38: a workflow whose trigger setup failed is never listed with status
\* active in the workflow registry: a cron workflow with an invalid schedule
\* leaves no active registry entry behind.
C38_FailedSetupNotActive ==
    \A t \in TaskIds :
        (/\ tasks[t].st = "failed"
         /\ \A u \in TaskIds : u # t => tasks[u].wf.Name # tasks[t].wf.Name) =>
            ~(/\ tasks[t].wf.Name \in DOMAIN registry
              /\ registry[tasks[t].wf.Name].Status = "active")

(***************************************************************************)
(* Properties of the run counters of the registry (SpecFixed).             *)
(***************************************************************************)
\* the run counters of every entry add up
CountersAddUp ==
    \A name \in DOMAIN registry :
        registry[name].TotalRuns =
            registry[name].SuccessCount + registry[name].FailureCount

\* the firings of workflow name that have returned
Completed(name) ==
    {f \in FiringIds : /\ firings[f].kind = "cron"
                       /\ firings[f].pc = "done"
                       /\ tasks[firings[f].task].wf.Name = name}

\* C39: for every registry entry, in every reachable state and under
\* concurrent firings, total_runs = success_count + failure_count, and each
\* completed firing increases total_runs by exactly one.
C39_RunCountersConsistent ==
    /\ [](CountersAddUp)
    /\ [][\A name \in DOMAIN registry :
             /\ name \in DOMAIN registry'
             /\ registry'[name].TotalRuns - registry[name].TotalRuns =
                    Cardinality(Completed(name)') - Cardinality(Completed(name))
             /\ Cardinality(Completed(name)') - Cardinality(Completed(name)) \in {0, 1}]_vars

\* two firings of one workflow were in progress together; one has succeeded
\* and one has failed, and the entry shows two runs
C39_Witness ==
    \E f, g \in FiringIds :
        /\ f # g
        /\ firings[f].kind = "cron" /\ firings[g].kind = "cron"
        /\ firings[f].task = firings[g].task
        /\ firings[f].pc = "done" /\ firings[f].status = "success"
        /\ firings[g].pc = "done" /\ firings[g].status = "failed"
        /\ LET e == registry[tasks[firings[f].task].wf.Name] IN
            /\ e.TotalRuns = 2
            /\ e.SuccessCount = 1
            /\ e.FailureCount = 1

(***************************************************************************)
(* Properties of the executions of a filewatch workflow (Spec).            *)
(***************************************************************************)
\* firing f is an execution of a filewatch workflow that is in progress
WatchExecuting(f) ==
    /\ firings[f].kind = "filewatch"
    /\ firings[f].pc = "run"

\* C40: executions of one filewatch workflow never overlap: the action
\* chain for one event runs to completion inside the single event loop
\* before the next event of that watch is taken.
C40_WatchExecutionsSerial ==
    \A f, g \in FiringIds :
        (/\ WatchExecuting(f)
         /\ WatchExecuting(g)
         /\ tasks[firings[f].task].path = tasks[firings[g].task].path
         /\ tasks[firings[f].task].wf = tasks[firings[g].task].wf) => f = g

====
